---- MODULE Spec2Model ----
(***************************************************************************)
(* Model of the track-crawler service: the job store of persistent.rs      *)
(* (tables tracks and jobs, claim / complete / fail, idempotent enqueue)   *)
(* and the feed, link and features loops of crawler.rs that drive it.      *)
(*                                                                         *)
(* Three specifications share the store operators:                         *)
(*   SpecClaim  concurrent callers of claim_one_job, one call each, on a   *)
(*              seeded jobs table; each SQL statement is one step.         *)
(*   SpecStore  clients calling the store's public operations in any       *)
(*              order, the multi-statement ones statement by statement.    *)
(*   SpecPipe   the running pipeline: feed_loop, link_loop, features_loop. *)
(***************************************************************************)
EXTENDS Integers, Sequences, FiniteSets, TLC

\* ------------------------------------------------------------------ bounds
NCallers == 2
MaxSeed == 2
MaxTime == 1
MaxCalls == 3
MaxBatch == 2
MaxDeletes == 1
MinPending == 1
NWaiters == 2
Interval == 2
MaxWaits == 3
MaxClock == 5
MaxRetries == 3
MaxBase == 8
MaxAttempt == 10
MaxReqs == 3
MaxLatency == 600
MaxPaceMs == 6000
MaxRawCalls == 2

\* --------------------------------------------------------------- constants
NULL == "NULL"
NoProc == 0

JobTypes == {"link", "features"}
JobStatuses == {"pending", "active", "done", "failed"}

Callers == 1..NCallers
Clients == {1, 2}

\* The values the callers pass in: catalog ids, ISRCs, recording ids.
SpotifyIds == {"s1", "s2"}
Isrcs == {"i1"}
Mbids == {"m1", "m2"}
TrackIds == 1..Cardinality(SpotifyIds)

VARIABLES
    tracks,     \* table tracks: internal id -> row
    jobs,       \* table jobs: job_id -> row
    jobSeq,     \* AUTOINCREMENT counter of jobs.job_id
    now,        \* the wall clock Persistent::now() reads, in seconds
    writer,     \* the transaction holding the store's write lock, or NoProc
    jobs0,      \* the jobs table when the callers of SpecClaim started
    cpc,        \* SpecClaim: each caller's position in claim_one_job
    ckind,      \* SpecClaim: the kind each caller asked for
    crow,       \* SpecClaim: the row the caller's SELECT returned
    cstamp,     \* SpecClaim: the value of now the caller bound to the UPDATE
    cfirst,     \* SpecClaim: the first-inserted oldest pending job at the SELECT
    cres,       \* SpecClaim: what the call returned
    trackSeq,   \* the number of internal ids minted so far (Uuid::new_v4)
    cl,         \* SpecStore: each client's position in a multi-statement call
    calls,      \* SpecStore: the number of store calls made so far
    lastOp,     \* the store statement executed last and what it met
    shutdown,   \* SpecPipe: the shared cancellation token is cancelled
    fpc,        \* SpecPipe: the feed loop's position
    fleft,      \* SpecPipe: tracks of the batch the feed has yet to ensure
    lpc,        \* SpecPipe: the link loop's position
    ljob,       \* SpecPipe: the job the link loop is processing
    lmbid,      \* SpecPipe: the recording id the link loop looked up
    gpc,        \* SpecPipe: the features loop's position
    gjob,       \* SpecPipe: the job the features loop is processing
    gtags,      \* features loop: the local tags of process_features_job
    dels,       \* SpecPipe: the number of tracks deleted outside the crawler
    clock,      \* SpecGate: the monotonic clock Instant::now() reads
    gateLast,   \* SpecGate: RateGate.state, the Instant inside the mutex
    gateLock,   \* SpecGate: the caller holding the mutex guard, or NoProc
    wpc,        \* SpecGate: each caller's position in RateGate::wait
    wdue,       \* SpecGate: the deadline of each caller's sleep
    rets,       \* SpecGate: the clock values at which wait() returned, in order
    hmax,       \* SpecHttp: max_retries
    hclone,     \* SpecHttp: whether request.try_clone() gives a request
    hpc,        \* SpecHttp: the position in http_with_retry
    attempt,    \* SpecHttp: the local attempt
    hlast,      \* SpecHttp: the outcome of the request sent last
    hsent,      \* SpecHttp: the number of requests sent
    hslept,     \* SpecHttp: the number of backoff sleeps
    hretry,     \* SpecHttp: every outcome so far was a retryable failure
    hres,       \* SpecHttp: what the call returned
    bms,        \* SpecBackoff: the argument ms of generate_backoff
    battempt,   \* SpecBackoff: the argument attempt
    bres,       \* SpecBackoff: the Duration returned, in milliseconds
    rpc,        \* SpecRun: position of Crawler::run
    trigger,    \* SpecRun: the signal watcher task
    wst,        \* SpecRun: each worker task, by iteration
    exited,     \* SpecRun: main has returned
    ppc,        \* SpecPace: the link loop's position
    pattempt,   \* SpecPace: the local attempt of http_with_retry
    reqs,       \* SpecPace: the clock values at which authority requests started
    raw,        \* table raw_files: id -> row
    rawSeq,     \* AUTOINCREMENT counter of raw_files.id
    feats,      \* table features: (track_id, source, feature) -> row
    ftx,        \* the open transaction of upsert_features_*, if any
    gmeta,      \* SpecJob: the local meta of process_features_job
    gsteps,     \* SpecJob: the requests made for the job in hand, with their results
    bearer_token,   \* feed_loop: the local bearer_token, Option as a sequence
    token_expiry,   \* feed_loop: the local token_expiry, in seconds of the clock
    real_expiry,    \* the instant the provider lets the token in hand expire
    payload,    \* SpecExtract: the JSON value handed to an extract function
    extracted   \* SpecExtract: what the function returned, Option as a sequence

storeVars == <<tracks, jobs, jobSeq, now, writer>>
claimVars == <<jobs0, cpc, ckind, crow, cstamp, cfirst, cres>>
clientVars == <<trackSeq, cl, calls, lastOp>>
pipeVars == <<shutdown, fpc, fleft, lpc, ljob, lmbid, gpc, gjob, gtags, dels>>
gateVars == <<clock, gateLast, gateLock, wpc, wdue, rets>>
httpVars == <<hmax, hclone, hpc, attempt, hlast, hsent, hslept, hretry, hres>>
backoffVars == <<bms, battempt, bres>>
runVars == <<rpc, trigger, wst, exited>>
paceVars == <<ppc, pattempt, reqs>>
fileVars == <<raw, rawSeq, feats, ftx>>
jobVars == <<gmeta, gsteps>>
tokVars == <<bearer_token, token_expiry, real_expiry>>
extVars == <<payload, extracted>>
utilVars == <<gateVars, httpVars, backoffVars, runVars, paceVars, fileVars, jobVars,
              tokVars, extVars>>
coreVars == <<storeVars, claimVars, clientVars, pipeVars>>
vars == <<tracks, jobs, jobSeq, now, writer, jobs0, cpc, ckind, crow, cstamp, cfirst, cres,
          trackSeq, cl, calls, lastOp, shutdown, fpc, fleft, lpc, ljob, lmbid, gpc, gjob, gtags, dels,
          clock, gateLast, gateLock, wpc, wdue, rets,
          hmax, hclone, hpc, attempt, hlast, hsent, hslept, hretry, hres,
          bms, battempt, bres, rpc, trigger, wst, exited, ppc, pattempt, reqs,
          raw, rawSeq, feats, ftx, gmeta, gsteps,
          bearer_token, token_expiry, real_expiry, payload, extracted>>

\* ------------------------------------------------------------ store: rows
TrackRow(sid, isrc) ==
    [spotify_id |-> sid, isrc |-> isrc, mb_recording_id |-> NULL,
     linked_ok |-> FALSE, features_ok |-> FALSE]

JobRow(t, k, st, att, ts) ==
    [track_id |-> t, kind |-> k, status |-> st, attempt |-> att,
     last_error |-> NULL, created_at |-> ts, updated_at |-> ts]

\* A descriptor read from the row as the UPDATE leaves it.
JobDescAfterUpdate(J, id) ==
    [job_id |-> id, track_id |-> J[id].track_id, kind |-> J[id].kind,
     attempt |-> J[id].attempt + 1]

\* The descriptor claim_one_job reads from the selected row.
JobDesc(J, id) ==
    [job_id |-> id, track_id |-> J[id].track_id, kind |-> J[id].kind,
     attempt |-> J[id].attempt]

NoRow == [job_id |-> 0, track_id |-> 0, kind |-> NULL, attempt |-> 0]

\* ------------------------------------------------- store: jobs statements
\* WHERE kind = ?1 AND status = 'pending'
PendingOfKind(J, k) ==
    {j \in DOMAIN J : J[j].kind = k /\ J[j].status = "pending"}

\* SELECT ... ORDER BY created_at ASC LIMIT 1: the rows the statement may
\* return.  The query orders by created_at alone, so among rows with the
\* same created_at the row returned is not determined by the statement.
SelectOldestPending(J, k) ==
    {j \in PendingOfKind(J, k) :
        \A i \in PendingOfKind(J, k) : J[j].created_at <= J[i].created_at}

\* The oldest pending row with ties broken by insertion order (job_id).
FirstInserted(J, k) ==
    {j \in SelectOldestPending(J, k) :
        \A i \in SelectOldestPending(J, k) : j <= i}

\* rows_affected of UPDATE jobs ... WHERE job_id = ?2 AND status = 'pending'
ClaimUpdateNoCheck(J, id) ==
    IF id \in DOMAIN J THEN 1 ELSE 0

ClaimRowsAffected(J, id) ==
    IF id \in DOMAIN J /\ J[id].status = "pending" THEN 1 ELSE 0

\* SET status = 'active', attempt = attempt + 1, updated_at = ?1
ClaimSetNoAttempt(J, id, ts) ==
    [J EXCEPT ![id] = [@ EXCEPT !.status = "active", !.updated_at = ts]]

ClaimSet(J, id, ts) ==
    [J EXCEPT ![id] = [@ EXCEPT !.status = "active",
                                !.attempt = @ + 1,
                                !.updated_at = ts]]

\* INSERT OR IGNORE INTO jobs (track_id, kind, 'pending', 0, now, now):
\* the row is refused when the track is missing (FOREIGN KEY) and ignored
\* when (track_id, kind) is taken (UNIQUE).  Gives the table and the counter.
JobOf(J, t, k) == {j \in DOMAIN J : J[j].track_id = t /\ J[j].kind = k}

InsertJobAlways(J, seq, T, t, k, ts) ==
    IF t \notin DOMAIN T
    THEN [jobs |-> J, seq |-> seq]
    ELSE [jobs |-> J @@ ((seq + 1) :> JobRow(t, k, "pending", 0, ts)), seq |-> seq + 1]

InsertJobOrReplace(J, seq, T, t, k, ts) ==
    IF t \notin DOMAIN T
    THEN [jobs |-> J, seq |-> seq]
    ELSE IF JobOf(J, t, k) # {}
    THEN [jobs |-> [j \in DOMAIN J |->
                        IF j \in JobOf(J, t, k) THEN JobRow(t, k, "pending", 0, ts) ELSE J[j]],
          seq |-> seq]
    ELSE [jobs |-> J @@ ((seq + 1) :> JobRow(t, k, "pending", 0, ts)), seq |-> seq + 1]

InsertJobOrRequeue(J, seq, T, t, k, ts) ==
    IF t \notin DOMAIN T
    THEN [jobs |-> J, seq |-> seq]
    ELSE IF JobOf(J, t, k) # {}
    THEN [jobs |-> [j \in DOMAIN J |->
                        IF j \in JobOf(J, t, k) /\ J[j].status = "failed"
                        THEN [J[j] EXCEPT !.status = "pending", !.updated_at = ts]
                        ELSE J[j]],
          seq |-> seq]
    ELSE [jobs |-> J @@ ((seq + 1) :> JobRow(t, k, "pending", 0, ts)), seq |-> seq + 1]

enqueue_job_if_missing(J, seq, T, t, k, ts) ==
    IF t \notin DOMAIN T \/ JobOf(J, t, k) # {}
    THEN [jobs |-> J, seq |-> seq]
    ELSE [jobs |-> J @@ ((seq + 1) :> JobRow(t, k, "pending", 0, ts)), seq |-> seq + 1]

\* What the enqueue met: the status of the row already there, or "absent".
EnqueueMet(J, T, t, k) ==
    IF t \notin DOMAIN T THEN "no_track"
    ELSE IF JobOf(J, t, k) # {} THEN J[CHOOSE j \in JobOf(J, t, k) : TRUE].status
    ELSE "absent"

CompleteJobSkipped(J, id, ts) == J

\* UPDATE jobs SET status='done', updated_at = ?1, last_error = NULL WHERE job_id = ?2
complete_job(J, id, ts) ==
    IF id \in DOMAIN J
    THEN [J EXCEPT ![id] = [@ EXCEPT !.status = "done", !.updated_at = ts, !.last_error = NULL]]
    ELSE J

\* UPDATE jobs SET status='failed', updated_at = ?1, last_error = ?2 WHERE job_id = ?3
fail_job(J, id, err, ts) ==
    IF id \in DOMAIN J
    THEN [J EXCEPT ![id] = [@ EXCEPT !.status = "failed", !.updated_at = ts, !.last_error = err]]
    ELSE J

\* SELECT COUNT(*) FROM jobs WHERE kind = ?1 AND status = ?2
count_jobs(J, k, st) ==
    Cardinality({j \in DOMAIN J : J[j].kind = k /\ J[j].status = st})

\* ----------------------------------------------- store: tracks statements
\* SELECT id FROM tracks WHERE spotify_id = ?1 LIMIT 1 (0: no row)
get_track_id(T, sid) ==
    IF \E t \in DOMAIN T : T[t].spotify_id = sid
    THEN CHOOSE t \in DOMAIN T : T[t].spotify_id = sid
    ELSE 0

\* The UNIQUE columns of tracks: a new or changed row may not repeat a value
\* another row holds (NULLs do not collide).
Taken(T, col, v, self) ==
    v # NULL /\ \E t \in DOMAIN T : t # self /\ T[t][col] = v

InsertViolatesNoIsrc(T, sid, isrc) ==
    Taken(T, "spotify_id", sid, 0)

InsertViolates(T, sid, isrc) ==
    Taken(T, "spotify_id", sid, 0) \/ Taken(T, "isrc", isrc, 0)

OverwriteIsrc(T, id, isrc) ==
    IF id \notin DOMAIN T \/ isrc = NULL THEN T
    ELSE IF Taken(T, "isrc", isrc, id) THEN T
    ELSE [T EXCEPT ![id].isrc = isrc]

\* UPDATE tracks SET isrc = COALESCE(isrc, ?1) WHERE id = ?2, its error
\* (a UNIQUE violation) dropped by `let _ =`.
coalesce_isrc(T, id, isrc) ==
    IF id \notin DOMAIN T \/ isrc = NULL THEN T
    ELSE IF T[id].isrc # NULL THEN T
    ELSE IF Taken(T, "isrc", isrc, id) THEN T
    ELSE [T EXCEPT ![id].isrc = isrc]

\* UPDATE tracks SET mb_recording_id = ?1, linked_ok = 1 WHERE id = ?3
SetMbidViolatesNever(T, id, mbid) == FALSE

SetMbidViolates(T, id, mbid) ==
    id \in DOMAIN T /\ Taken(T, "mb_recording_id", mbid, id)

SetMbidNoFlag(T, id, mbid) ==
    IF id \in DOMAIN T
    THEN [T EXCEPT ![id] = [@ EXCEPT !.mb_recording_id = mbid]]
    ELSE T

set_mbid(T, id, mbid) ==
    IF id \in DOMAIN T
    THEN [T EXCEPT ![id] = [@ EXCEPT !.mb_recording_id = mbid, !.linked_ok = TRUE]]
    ELSE T

\* UPDATE tracks SET features_ok = 1 WHERE id = ?2
mark_features_ok(T, id) ==
    IF id \in DOMAIN T THEN [T EXCEPT ![id].features_ok = TRUE] ELSE T

\* A caller that is in no multi-statement call, and the record of the last
\* statement: lastOp names the enqueue, set_mbid and upsert statements and
\* what they met, and is "other" after any other statement.
IdleCl == [pc |-> "idle", sid |-> NULL, isrc |-> NULL, tid |-> 0]

Op(name, met) == [op |-> name, met |-> met]

\* The loops of the crawler before Crawler::run has started them.
InitPipeVars ==
    /\ shutdown = FALSE
    /\ fpc = "head"
    /\ fleft = 0
    /\ lpc = "head"
    /\ ljob = NoRow
    /\ lmbid = NULL
    /\ gpc = "head"
    /\ gjob = NoRow
    /\ gtags = NULL
    /\ dels = 0

\* The store with no table filled and no caller, for the specifications of
\* the helpers that do not touch it.
InitStoreVars ==
    /\ tracks = <<>>
    /\ jobs = <<>>
    /\ jobSeq = 0
    /\ now = 0
    /\ writer = NoProc
    /\ jobs0 = <<>>
    /\ cpc = <<>>
    /\ ckind = <<>>
    /\ crow = <<>>
    /\ cstamp = <<>>
    /\ cfirst = <<>>
    /\ cres = <<>>
    /\ trackSeq = 0
    /\ cl = <<>>
    /\ calls = 0
    /\ lastOp = Op("init", NULL)

\* The rate gate, the request helper and the backoff function before use.
InitGateVars ==
    /\ clock = 0
    /\ gateLast = 0
    /\ gateLock = NoProc
    /\ wpc = <<>>
    /\ wdue = <<>>
    /\ rets = <<>>

InitHttpVars ==
    /\ hmax = 0
    /\ hclone = TRUE
    /\ hpc = "idle"
    /\ attempt = 0
    /\ hlast = NULL
    /\ hsent = 0
    /\ hslept = 0
    /\ hretry = TRUE
    /\ hres = NULL

InitBackoffVars ==
    /\ bms = 0
    /\ battempt = 0
    /\ bres = <<>>

InitRunVars ==
    /\ rpc = "idle"
    /\ trigger = "idle"
    /\ wst = <<>>
    /\ exited = FALSE

InitPaceVars ==
    /\ ppc = "idle"
    /\ pattempt = 0
    /\ reqs = <<>>

InitFileVars ==
    /\ raw = <<>>
    /\ rawSeq = 0
    /\ feats = <<>>
    /\ ftx = <<>>

InitJobVars ==
    /\ gmeta = <<>>
    /\ gsteps = <<>>

InitTokVars ==
    /\ bearer_token = <<>>
    /\ token_expiry = 0
    /\ real_expiry = 0

InitExtVars ==
    /\ payload = <<>>
    /\ extracted = <<>>

InitUtilVars ==
    /\ InitGateVars
    /\ InitHttpVars
    /\ InitBackoffVars
    /\ InitRunVars
    /\ InitPaceVars
    /\ InitFileVars
    /\ InitJobVars
    /\ InitTokVars
    /\ InitExtVars

\* ------------------------------------------------------------------ clock
Tick ==
    /\ now < MaxTime
    /\ now' = now + 1
    /\ UNCHANGED <<tracks, jobs, jobSeq, writer>>
    /\ UNCHANGED claimVars
    /\ UNCHANGED utilVars
    /\ UNCHANGED pipeVars
    /\ UNCHANGED clientVars

\* ====================================================== SpecClaim
\* Seeded tables: rows 1..n in insertion order, row i owned by track i, with
\* created_at non-decreasing in job_id (the clock does not run backwards) and
\* attempt as claim_one_job leaves it (0 while pending, 1 once claimed); at
\* most one seeded row has already left pending.
SeedTimes == {0, 1}

SeedTables ==
    UNION {
        {J \in [1..n -> [track_id : 1..MaxSeed, kind : JobTypes, status : JobStatuses,
                         attempt : {0, 1}, last_error : {NULL},
                         created_at : SeedTimes, updated_at : SeedTimes]] :
            /\ Cardinality({i \in 1..n : J[i].status # "pending"}) <= 1
            /\ \A i \in 1..n :
                /\ J[i].track_id = i
                /\ J[i].attempt = (IF J[i].status = "pending" THEN 0 ELSE 1)
                /\ J[i].updated_at = J[i].created_at
                /\ \A h \in 1..n : h < i => J[h].created_at <= J[i].created_at}
        : n \in 0..MaxSeed}

InitClaim ==
    /\ jobs \in SeedTables
    /\ tracks = [t \in 1..MaxSeed |-> TrackRow(NULL, NULL)]
    /\ jobSeq = Cardinality(DOMAIN jobs)
    /\ now = IF DOMAIN jobs = {} THEN 0 ELSE jobs[Cardinality(DOMAIN jobs)].created_at
    /\ writer = NoProc
    /\ jobs0 = jobs
    /\ cpc = [c \in Callers |-> "idle"]
    /\ ckind = [c \in Callers |-> NULL]
    /\ crow = [c \in Callers |-> NoRow]
    /\ cstamp = [c \in Callers |-> 0]
    /\ cfirst = [c \in Callers |-> 0]
    /\ cres = [c \in Callers |-> "running"]
    /\ trackSeq = MaxSeed
    /\ cl = [c \in Callers |-> IdleCl]
    /\ calls = 0
    /\ lastOp = Op("init", NULL)
    /\ InitPipeVars
    /\ InitUtilVars

\* tx = pool.begin(); SELECT ... LIMIT 1 returns a row
ClaimSelect(c) ==
    /\ cpc[c] = "idle"
    /\ \E k \in JobTypes :
        /\ SelectOldestPending(jobs, k) # {}
        /\ \E j \in SelectOldestPending(jobs, k) :
            /\ crow' = [crow EXCEPT ![c] = JobDesc(jobs, j)]
            /\ cfirst' = [cfirst EXCEPT ![c] = CHOOSE f \in FirstInserted(jobs, k) : TRUE]
        /\ ckind' = [ckind EXCEPT ![c] = k]
    /\ cpc' = [cpc EXCEPT ![c] = "selected"]
    /\ UNCHANGED <<jobs0, cstamp, cres>>
    /\ UNCHANGED storeVars

\* SELECT returns no row: tx.rollback(); return Ok(None)
ClaimSelectEmpty(c) ==
    /\ cpc[c] = "idle"
    /\ \E k \in JobTypes :
        /\ SelectOldestPending(jobs, k) = {}
        /\ ckind' = [ckind EXCEPT ![c] = k]
    /\ cpc' = [cpc EXCEPT ![c] = "done"]
    /\ cres' = [cres EXCEPT ![c] = "none"]
    /\ UNCHANGED <<jobs0, crow, cstamp, cfirst>>
    /\ UNCHANGED storeVars

\* now = Self::now(); UPDATE ... affects one row: the transaction holds the
\* write lock until it commits or rolls back.
ClaimUpdate(c) ==
    /\ cpc[c] = "selected"
    /\ writer = NoProc
    /\ ClaimRowsAffected(jobs, crow[c].job_id) = 1
    /\ writer' = c
    /\ cstamp' = [cstamp EXCEPT ![c] = now]
    /\ cpc' = [cpc EXCEPT ![c] = "updated"]
    /\ UNCHANGED <<tracks, jobs, jobSeq, now>>
    /\ UNCHANGED <<jobs0, ckind, crow, cfirst, cres>>

\* UPDATE affects no row (lost race): tx.rollback(); return Ok(None)
ClaimLostRace(c) ==
    /\ cpc[c] = "selected"
    /\ writer = NoProc
    /\ ClaimRowsAffected(jobs, crow[c].job_id) = 0
    /\ cpc' = [cpc EXCEPT ![c] = "done"]
    /\ cres' = [cres EXCEPT ![c] = "none"]
    /\ UNCHANGED <<jobs0, ckind, crow, cstamp, cfirst>>
    /\ UNCHANGED storeVars

\* tx.commit(); return Ok(Some(Job { job_id, track_id, kind, attempt }))
ClaimCommit(c) ==
    /\ cpc[c] = "updated"
    /\ jobs' = ClaimSet(jobs, crow[c].job_id, cstamp[c])
    /\ writer' = NoProc
    /\ cpc' = [cpc EXCEPT ![c] = "done"]
    /\ cres' = [cres EXCEPT ![c] = "job"]
    /\ UNCHANGED <<tracks, jobSeq, now>>
    /\ UNCHANGED <<jobs0, ckind, crow, cstamp, cfirst>>

\* A statement or the commit fails (the `?` paths), or the call is dropped
\* before the commit: the transaction is rolled back and nothing is written.
ClaimAbort(c) ==
    /\ cpc[c] \in {"selected", "updated"}
    /\ writer' = IF writer = c THEN NoProc ELSE writer
    /\ cpc' = [cpc EXCEPT ![c] = "done"]
    /\ cres' = [cres EXCEPT ![c] = "err"]
    /\ UNCHANGED <<tracks, jobs, jobSeq, now>>
    /\ UNCHANGED <<jobs0, ckind, crow, cstamp, cfirst>>

\* The clock advances during the race, within the seconds the seed uses.
RaceTick ==
    /\ now + 1 \in SeedTimes
    /\ now' = now + 1
    /\ UNCHANGED <<tracks, jobs, jobSeq, writer>>
    /\ UNCHANGED claimVars
    /\ UNCHANGED utilVars
    /\ UNCHANGED pipeVars
    /\ UNCHANGED clientVars

NextClaim ==
    \/ RaceTick
    \/ \E c \in Callers : ClaimSelect(c) /\ UNCHANGED <<clientVars, pipeVars, utilVars>>
    \/ \E c \in Callers : ClaimSelectEmpty(c) /\ UNCHANGED <<clientVars, pipeVars, utilVars>>
    \/ \E c \in Callers : ClaimUpdate(c) /\ UNCHANGED <<clientVars, pipeVars, utilVars>>
    \/ \E c \in Callers : ClaimLostRace(c) /\ UNCHANGED <<clientVars, pipeVars, utilVars>>
    \/ \E c \in Callers : ClaimCommit(c) /\ UNCHANGED <<clientVars, pipeVars, utilVars>>
    \/ \E c \in Callers : ClaimAbort(c) /\ UNCHANGED <<clientVars, pipeVars, utilVars>>

SpecClaim == InitClaim /\ [][NextClaim]_vars

\* The claim call with the cancellation the token does not give: the task is
\* dropped at an await when the runtime shuts down.  Dropped before the
\* commit the transaction is rolled back (ClaimAbort); dropped at
\* tx.commit().await the commit may already be with the engine, and then
\* takes effect although the call never returns.
ClaimCommitDropped(c) ==
    /\ cpc[c] = "updated"
    /\ jobs' = ClaimSet(jobs, crow[c].job_id, cstamp[c])
    /\ writer' = NoProc
    /\ cpc' = [cpc EXCEPT ![c] = "done"]
    /\ cres' = [cres EXCEPT ![c] = "dropped"]
    /\ UNCHANGED <<tracks, jobSeq, now>>
    /\ UNCHANGED <<jobs0, ckind, crow, cstamp, cfirst>>

NextClaimDrop ==
    \/ RaceTick
    \/ \E c \in Callers : ClaimSelect(c) /\ UNCHANGED <<clientVars, pipeVars, utilVars>>
    \/ \E c \in Callers : ClaimSelectEmpty(c) /\ UNCHANGED <<clientVars, pipeVars, utilVars>>
    \/ \E c \in Callers : ClaimUpdate(c) /\ UNCHANGED <<clientVars, pipeVars, utilVars>>
    \/ \E c \in Callers : ClaimLostRace(c) /\ UNCHANGED <<clientVars, pipeVars, utilVars>>
    \/ \E c \in Callers : ClaimCommit(c) /\ UNCHANGED <<clientVars, pipeVars, utilVars>>
    \/ \E c \in Callers : ClaimAbort(c) /\ UNCHANGED <<clientVars, pipeVars, utilVars>>
    \/ \E c \in Callers : ClaimCommitDropped(c) /\ UNCHANGED <<clientVars, pipeVars, utilVars>>

SpecClaimDrop == InitClaim /\ [][NextClaimDrop]_vars

\* C28: every job that has turned active was returned to a caller (a call
\* that returns no job or does not complete leaves the table as it was).
C28_ActiveWasReturned ==
    \A j \in DOMAIN jobs :
        (jobs[j].status = "active" /\ jobs0[j].status # "active") =>
            \E c \in Callers : cres[c] = "job" /\ crow[c].job_id = j

\* C38: the descriptor a successful claim returns carries the attempt count
\* read by the SELECT, before the UPDATE's increment: it is the stored count
\* after the claim minus one.
C38_DescriptorAttemptBeforeIncrement ==
    \A c \in Callers :
        cres[c] = "job" =>
            /\ crow[c].job_id \in DOMAIN jobs
            /\ crow[c].attempt = jobs[crow[c].job_id].attempt - 1
            /\ crow[c].track_id = jobs[crow[c].job_id].track_id
            /\ crow[c].kind = jobs[crow[c].job_id].kind

\* a first claim: the descriptor says 0 while the row shows 1, and another
\* caller that selected the same row lost the race
C38_Witness ==
    \E c, o \in Callers :
        /\ c # o
        /\ cres[c] = "job"
        /\ crow[c].attempt = 0
        /\ jobs[crow[c].job_id].attempt = 1
        /\ jobs0[crow[c].job_id].status = "pending"
        /\ cres[o] = "none"
        /\ crow[o].job_id = crow[c].job_id

Min(a, b) == IF a <= b THEN a ELSE b

AllReturned == \A c \in Callers : cpc[c] = "done"
NoStoreError == \A c \in Callers : cres[c] # "err"
Returned(k) == {c \in Callers : ckind[c] = k /\ cres[c] = "job"}
CallersOf(k) == {c \in Callers : ckind[c] = k}

\* C1: no two claim_one_job calls return the same job id, whatever the
\* interleaving of the callers' SELECT, UPDATE and commit steps.
C1_NoDuplicateClaim ==
    \A c1, c2 \in Callers :
        (c1 # c2 /\ cres[c1] = "job" /\ cres[c2] = "job")
            => crow[c1].job_id # crow[c2].job_id

\* Two callers selected the same row; one returned it, the other returned
\* no job.
C1_Witness ==
    \E c1, c2 \in Callers :
        /\ c1 # c2
        /\ crow[c1].job_id = crow[c2].job_id
        /\ cres[c1] = "job"
        /\ cres[c2] = "none"
        /\ cfirst[c2] # 0

\* C2: once every caller has returned (none of them with a store error), the
\* number of calls of kind k that returned a job is min(N, M), N the callers
\* of kind k and M the jobs of kind k pending when they started.
C2_ClaimsEqualMin ==
    (AllReturned /\ NoStoreError) =>
        \A k \in JobTypes :
            Cardinality(Returned(k)) =
                Min(Cardinality(CallersOf(k)), Cardinality(PendingOfKind(jobs0, k)))

\* A claim that returns a job: the step that makes caller c return it.
Returns(c) == cres[c] = "running" /\ cres'[c] = "job"

\* C4: the step in which a call returns a job turns exactly that job's row
\* from pending to active with attempt + 1 (and the bound update time) and
\* leaves every other job row and every track row as it was; and with one
\* pending job and every caller asking for its kind, exactly one caller gets
\* the job, the others get nothing, and the row ends active with attempt 1.
C4_StepFrame ==
    \A c \in Callers :
        Returns(c) =>
            LET id == crow[c].job_id IN
            /\ id \in DOMAIN jobs
            /\ jobs[id].status = "pending"
            /\ DOMAIN jobs' = DOMAIN jobs
            /\ jobs'[id].status = "active"
            /\ jobs'[id].attempt = jobs[id].attempt + 1
            /\ jobs'[id].updated_at = cstamp[c]
            /\ jobs'[id].track_id = jobs[id].track_id
            /\ jobs'[id].kind = jobs[id].kind
            /\ jobs'[id].last_error = jobs[id].last_error
            /\ jobs'[id].created_at = jobs[id].created_at
            /\ \A i \in DOMAIN jobs : i # id => jobs'[i] = jobs[i]
            /\ tracks' = tracks

OnePendingScenario(k) ==
    /\ Cardinality(PendingOfKind(jobs0, k)) = 1
    /\ \A c \in Callers : ckind[c] = k
    /\ AllReturned
    /\ NoStoreError

C4_Scenario ==
    \A k \in JobTypes :
        OnePendingScenario(k) =>
            LET j == CHOOSE i \in PendingOfKind(jobs0, k) : TRUE IN
            /\ Cardinality(Returned(k)) = 1
            /\ \A c \in Callers : cres[c] \in {"job", "none"}
            /\ \A c \in Returned(k) : crow[c].job_id = j
            /\ jobs[j].status = "active"
            /\ jobs[j].attempt = 1

C4_ClaimChangesOnlyItsRow ==
    [][C4_StepFrame]_vars /\ []C4_Scenario

C4_Witness ==
    \E k \in JobTypes :
        /\ OnePendingScenario(k)
        /\ Returned(k) # {}
        /\ \E c \in Callers : cres[c] = "none" /\ crow[c].job_id # 0

\* C5: a call that returns a job returns the pending job of its kind with
\* the smallest creation timestamp and, among equal timestamps, the smallest
\* job id, as the table stood at the call's SELECT.
C5_ReturnsFirstInserted ==
    \A c \in Callers :
        cres[c] = "job" =>
            /\ crow[c].kind = ckind[c]
            /\ crow[c].job_id = cfirst[c]


\* ====================================================== SpecStore
\* Clients call the store's public operations in any order.  A statement is
\* one step, so the statements of concurrent calls interleave; the statements
\* of claim_one_job run in one transaction and are taken as one step here
\* (SpecClaim takes them apart).
\* The store the clients start on: empty, or two tracks as two ensure_track
\* calls leave them, each with its pending link job.
SeedStores ==
    { [tracks |-> <<>>, jobs |-> <<>>],
      [tracks |-> <<TrackRow("s1", NULL), TrackRow("s2", NULL)>>,
       jobs |-> <<JobRow(1, "link", "pending", 0, 0), JobRow(2, "link", "pending", 0, 0)>>] }

InitStore ==
    /\ \E s \in SeedStores :
        /\ tracks = s.tracks
        /\ jobs = s.jobs
    /\ jobSeq = Cardinality(DOMAIN jobs)
    /\ trackSeq = Cardinality(DOMAIN tracks)
    /\ now = 0
    /\ writer = NoProc
    /\ jobs0 = <<>>
    /\ cpc = <<>>
    /\ ckind = <<>>
    /\ crow = <<>>
    /\ cstamp = <<>>
    /\ cfirst = <<>>
    /\ cres = <<>>
    /\ cl = [c \in Clients |-> IdleCl]
    /\ calls = 0
    /\ lastOp = Op("init", NULL)
    /\ InitPipeVars
    /\ InitUtilVars

NewCall ==
    /\ calls < MaxCalls
    /\ calls' = calls + 1

\* ensure_track -> upsert_track, first statement: a missing spotify_id is
\* refused, else get_track_id decides between the UPDATE and the INSERT.
EnsureTrackBegin(c, sid, isrc) ==
    /\ IF sid = NULL
       THEN cl' = cl
       ELSE LET existing == get_track_id(tracks, sid) IN
            cl' = [cl EXCEPT ![c] =
                      IF existing # 0
                      THEN [pc |-> "update", sid |-> NULL, isrc |-> isrc, tid |-> existing]
                      ELSE [pc |-> "insert", sid |-> sid, isrc |-> isrc, tid |-> 0]]
    /\ lastOp' = Op("other", NULL)

UpsertLookup(c) ==
    /\ cl[c].pc = "idle"
    /\ NewCall
    /\ \E sid \in SpotifyIds \cup {NULL}, isrc \in Isrcs \cup {NULL} :
        EnsureTrackBegin(c, sid, isrc)
    /\ UNCHANGED <<trackSeq>>
    /\ UNCHANGED storeVars
    /\ UNCHANGED claimVars
    /\ UNCHANGED utilVars
    /\ UNCHANGED pipeVars

\* upsert_track, existing row: the merge of the descriptive columns (not
\* modelled) and the COALESCE of isrc; returns (existing, false).
UpsertUpdate(c) ==
    /\ cl[c].pc = "update"
    /\ tracks' = coalesce_isrc(tracks, cl[c].tid, cl[c].isrc)
    /\ cl' = [cl EXCEPT ![c] = [IdleCl EXCEPT !.pc = "select_linked", !.tid = cl[c].tid]]
    /\ lastOp' = Op("upsert_update",
                     IF cl[c].isrc = NULL \/ cl[c].tid \notin DOMAIN tracks THEN "none"
                     ELSE IF tracks[cl[c].tid].isrc # NULL THEN "kept"
                     ELSE IF Taken(tracks, "isrc", cl[c].isrc, cl[c].tid) THEN "unique_violation"
                     ELSE "filled")
    /\ UNCHANGED <<jobs, jobSeq, now, writer, trackSeq, calls>>
    /\ UNCHANGED claimVars
    /\ UNCHANGED utilVars
    /\ UNCHANGED pipeVars

\* upsert_track, no row: INSERT with a fresh internal id; a UNIQUE violation
\* is returned as an error.
UpsertInsert(c) ==
    /\ cl[c].pc = "insert"
    /\ IF InsertViolates(tracks, cl[c].sid, cl[c].isrc)
       THEN /\ UNCHANGED <<tracks, trackSeq>>
            /\ cl' = [cl EXCEPT ![c] = IdleCl]
            /\ lastOp' = Op("upsert_insert", "unique_violation")
       ELSE /\ trackSeq' = trackSeq + 1
            /\ tracks' = tracks @@ ((trackSeq + 1) :> TrackRow(cl[c].sid, cl[c].isrc))
            /\ cl' = [cl EXCEPT ![c] = [IdleCl EXCEPT !.pc = "select_linked", !.tid = trackSeq + 1]]
            /\ lastOp' = Op("upsert_insert", "ok")
    /\ UNCHANGED <<jobs, jobSeq, now, writer, calls>>
    /\ UNCHANGED claimVars
    /\ UNCHANGED utilVars
    /\ UNCHANGED pipeVars

\* ensure_track: SELECT linked_ok; a link job is enqueued unless it is 1.
EnsureSelectLinked(c) ==
    /\ cl[c].pc = "select_linked"
    /\ LET linked == cl[c].tid \in DOMAIN tracks /\ tracks[cl[c].tid].linked_ok IN
       /\ cl' = [cl EXCEPT ![c] = IF linked THEN IdleCl ELSE [@ EXCEPT !.pc = "enqueue_link"]]
       /\ lastOp' = IF linked THEN Op("ensure_track", "linked") ELSE Op("other", NULL)
    /\ UNCHANGED <<trackSeq, calls>>
    /\ UNCHANGED storeVars
    /\ UNCHANGED claimVars
    /\ UNCHANGED utilVars
    /\ UNCHANGED pipeVars

\* The enqueue statement, as ensure_track, enqueue_features and direct
\* callers of enqueue_job_if_missing run it.
Enqueue(t, k) ==
    /\ LET r == enqueue_job_if_missing(jobs, jobSeq, tracks, t, k, now) IN
       /\ jobs' = r.jobs
       /\ jobSeq' = r.seq
    /\ lastOp' = Op("enqueue_job_if_missing", EnqueueMet(jobs, tracks, t, k))
    /\ UNCHANGED <<tracks, now, writer, trackSeq>>
    /\ UNCHANGED claimVars
    /\ UNCHANGED utilVars
    /\ UNCHANGED pipeVars

EnsureEnqueue(c) ==
    /\ cl[c].pc = "enqueue_link"
    /\ Enqueue(cl[c].tid, "link")
    /\ cl' = [cl EXCEPT ![c] = IdleCl]
    /\ UNCHANGED calls

\* enqueue_features: SELECT linked_ok, features_ok (a missing row reads as
\* (0, 0)); the features job is enqueued when they are (1, 0).
EnqFeaturesBegin(c, t) ==
    LET go == t \in DOMAIN tracks /\ tracks[t].linked_ok /\ ~tracks[t].features_ok IN
    /\ cl' = [cl EXCEPT ![c] = IF go THEN [IdleCl EXCEPT !.pc = "enqueue_features", !.tid = t]
                                    ELSE IdleCl]
    /\ lastOp' = Op("other", NULL)

EnqFeaturesSelect(c) ==
    /\ cl[c].pc = "idle"
    /\ NewCall
    /\ \E t \in TrackIds : EnqFeaturesBegin(c, t)
    /\ UNCHANGED <<trackSeq>>
    /\ UNCHANGED storeVars
    /\ UNCHANGED claimVars
    /\ UNCHANGED utilVars
    /\ UNCHANGED pipeVars

EnqFeaturesEnqueue(c) ==
    /\ cl[c].pc = "enqueue_features"
    /\ Enqueue(cl[c].tid, "features")
    /\ cl' = [cl EXCEPT ![c] = IdleCl]
    /\ UNCHANGED calls

\* enqueue_job_if_missing called directly.
EnqueueJobIfMissing ==
    /\ NewCall
    /\ \E t \in TrackIds, k \in JobTypes : Enqueue(t, k)
    /\ UNCHANGED cl

\* claim_one_job: the oldest pending row of the kind, if any, turns active.
ClaimOneJob ==
    /\ NewCall
    /\ \E k \in JobTypes :
        IF SelectOldestPending(jobs, k) = {}
        THEN /\ jobs' = jobs
             /\ lastOp' = Op("other", NULL)
        ELSE \E j \in SelectOldestPending(jobs, k) :
             /\ ClaimRowsAffected(jobs, j) = 1
             /\ jobs' = ClaimSet(jobs, j, now)
             /\ lastOp' = Op("other", NULL)
    /\ UNCHANGED <<tracks, jobSeq, now, writer, trackSeq, cl>>
    /\ UNCHANGED claimVars
    /\ UNCHANGED utilVars
    /\ UNCHANGED pipeVars

CompleteJob ==
    /\ NewCall
    /\ \E id \in DOMAIN jobs :
        /\ jobs' = complete_job(jobs, id, now)
        /\ lastOp' = Op("other", NULL)
    /\ UNCHANGED <<tracks, jobSeq, now, writer, trackSeq, cl>>
    /\ UNCHANGED claimVars
    /\ UNCHANGED utilVars
    /\ UNCHANGED pipeVars

FailJob ==
    /\ NewCall
    /\ \E id \in DOMAIN jobs :
        /\ jobs' = fail_job(jobs, id, "track not found", now)
        /\ lastOp' = Op("other", NULL)
    /\ UNCHANGED <<tracks, jobSeq, now, writer, trackSeq, cl>>
    /\ UNCHANGED claimVars
    /\ UNCHANGED utilVars
    /\ UNCHANGED pipeVars

\* set_mbid: the UPDATE fails on UNIQUE(mb_recording_id) and changes nothing.
SetMbid ==
    /\ NewCall
    /\ \E t \in DOMAIN tracks, m \in Mbids :
        IF SetMbidViolates(tracks, t, m)
        THEN /\ tracks' = tracks
             /\ lastOp' = Op("set_mbid", "unique_violation")
        ELSE /\ tracks' = set_mbid(tracks, t, m)
             /\ lastOp' = Op("set_mbid", "ok")
    /\ UNCHANGED <<jobs, jobSeq, now, writer, trackSeq, cl>>
    /\ UNCHANGED claimVars
    /\ UNCHANGED utilVars
    /\ UNCHANGED pipeVars

MarkFeaturesOk ==
    /\ NewCall
    /\ \E t \in DOMAIN tracks :
        /\ tracks' = mark_features_ok(tracks, t)
        /\ lastOp' = Op("other", NULL)
    /\ UNCHANGED <<jobs, jobSeq, now, writer, trackSeq, cl>>
    /\ UNCHANGED claimVars
    /\ UNCHANGED utilVars
    /\ UNCHANGED pipeVars

\* A statement of a multi-statement call fails: the call returns the error.
ClientError(c) ==
    /\ cl[c].pc # "idle"
    /\ cl' = [cl EXCEPT ![c] = IdleCl]
    /\ lastOp' = Op("other", NULL)
    /\ UNCHANGED <<trackSeq, calls>>
    /\ UNCHANGED storeVars
    /\ UNCHANGED claimVars
    /\ UNCHANGED utilVars
    /\ UNCHANGED pipeVars

NextStore ==
    \/ Tick
    \/ \E c \in Clients : UpsertLookup(c)
    \/ \E c \in Clients : UpsertUpdate(c)
    \/ \E c \in Clients : UpsertInsert(c)
    \/ \E c \in Clients : EnsureSelectLinked(c)
    \/ \E c \in Clients : EnsureEnqueue(c)
    \/ \E c \in Clients : EnqFeaturesSelect(c)
    \/ \E c \in Clients : EnqFeaturesEnqueue(c)
    \/ EnqueueJobIfMissing
    \/ ClaimOneJob
    \/ CompleteJob
    \/ FailJob
    \/ SetMbid
    \/ MarkFeaturesOk
    \/ \E c \in Clients : ClientError(c)

SpecStore == InitStore /\ [][NextStore]_vars

\* C3: the jobs table holds at most one row for each (track, kind) pair.
C3_OneJobPerTrackKind ==
    \A j1, j2 \in DOMAIN jobs :
        j1 # j2 => ~(jobs[j1].track_id = jobs[j2].track_id /\ jobs[j1].kind = jobs[j2].kind)

\* An enqueue has just met a row already there for its (track, kind).
C3_Witness ==
    /\ lastOp.op = "enqueue_job_if_missing"
    /\ lastOp.met \in JobStatuses
    /\ Cardinality(DOMAIN jobs) >= 2

\* C6: an enqueue_job_if_missing statement that finds a row for (t, k), in
\* any status, leaves the jobs table as it was (status, attempt, last error
\* and timestamps included); one that finds none adds one pending row with
\* attempt 0 and changes no other row; and enqueueing the same pair again,
\* at any later time, gives the table the first enqueue gave.
C6_Step ==
    lastOp'.op = "enqueue_job_if_missing" =>
        \/ jobs' = jobs
        \/ /\ lastOp'.met = "absent"
           /\ \E new \in DOMAIN jobs' :
                /\ new \notin DOMAIN jobs
                /\ DOMAIN jobs' = DOMAIN jobs \cup {new}
                /\ jobs'[new].status = "pending"
                /\ jobs'[new].attempt = 0
                /\ jobs'[new].last_error = NULL
                /\ \A j \in DOMAIN jobs : jobs'[j] = jobs[j]

C6_Twice ==
    \A t \in TrackIds, k \in JobTypes :
        LET once == enqueue_job_if_missing(jobs, jobSeq, tracks, t, k, now) IN
        /\ \A ts \in now..MaxTime :
            enqueue_job_if_missing(once.jobs, once.seq, tracks, t, k, ts) = once
        /\ JobOf(jobs, t, k) # {} => once.jobs = jobs
        /\ t \in DOMAIN tracks => Cardinality(JobOf(once.jobs, t, k)) = 1

C6_EnqueueIdempotent ==
    [][C6_Step]_vars /\ []C6_Twice

\* An enqueue has just met a failed row, which still carries its last error.
C6_Witness ==
    /\ lastOp = Op("enqueue_job_if_missing", "failed")
    /\ \E j \in DOMAIN jobs :
        jobs[j].status = "failed" /\ jobs[j].last_error = "track not found"

\* C10: no two track rows share a catalog-provider id, an ISRC or an
\* authority recording id.
C10_UniqueExternalIds ==
    \A t1, t2 \in DOMAIN tracks :
        t1 # t2 =>
            \A col \in {"spotify_id", "isrc", "mb_recording_id"} :
                tracks[t1][col] = NULL \/ tracks[t1][col] # tracks[t2][col]

\* set_mbid has just been refused a recording id another track holds, in a
\* store where an upsert also carried an ISRC.
C10_Witness ==
    /\ lastOp = Op("set_mbid", "unique_violation")
    /\ \E t \in DOMAIN tracks : tracks[t].isrc # NULL

\* ====================================================== SpecPipe
\* The running crawler: the feed, link and features loops of Crawler::run on
\* one store, each store call or remote request one step.  The loops run
\* within one second of Persistent::now, so all rows carry the same stamp and
\* a claim may return any pending row of its kind.  The feed calls
\* ensure_track as client FeedClient and the link loop calls enqueue_features
\* as client LinkClient, through the statement steps above.  Tracks are never
\* deleted by the crawler; DeleteTrack is a deletion made outside it, which
\* the store answers by deleting the track's jobs (ON DELETE CASCADE).
FeedClient == 1
LinkClient == 2

\* The catalog ids the search returns, and the first recordings[*].id of an
\* authority response: any JSON string, the empty one included.
FeedIds == {"s1"}
AuthorityIds == {"m1", ""}

\* The store the crawler starts on: new, or left by earlier calls with a
\* link job that was failed.
SeedPipes ==
    { [tracks |-> <<>>, jobs |-> <<>>],
      [tracks |-> <<TrackRow("s1", NULL)>>,
       jobs |-> <<[JobRow(1, "link", "failed", 1, 0) EXCEPT !.last_error = "track not found"]>>] }

InitPipe ==
    /\ \E s \in SeedPipes :
        /\ tracks = s.tracks
        /\ jobs = s.jobs
    /\ jobSeq = Cardinality(DOMAIN jobs)
    /\ trackSeq = Cardinality(DOMAIN tracks)
    /\ now = 0
    /\ writer = NoProc
    /\ jobs0 = <<>>
    /\ cpc = <<>>
    /\ ckind = <<>>
    /\ crow = <<>>
    /\ cstamp = <<>>
    /\ cfirst = <<>>
    /\ cres = <<>>
    /\ cl = [c \in Clients |-> IdleCl]
    /\ calls = 0
    /\ lastOp = Op("init", NULL)
    /\ InitPipeVars
    /\ InitUtilVars

\* What a step of a loop leaves alone besides the tables it names.
PipeKeep ==
    /\ UNCHANGED <<jobSeq, now, writer, trackSeq, calls, dels>>
    /\ UNCHANGED claimVars
    /\ UNCHANGED utilVars

PipeFrame ==
    /\ lastOp' = Op("other", NULL)
    /\ PipeKeep

\* what a loop last wrote to the log (info!, warn!, error!), kept in lastOp
Logged(msg, level) == [op |-> msg, met |-> level]

OnJobErrorFail(J, id, ts) == fail_job(J, id, "error", ts)

OnJobErrorRequeue(J, id, ts) ==
    IF id \in DOMAIN J
    THEN [J EXCEPT ![id] = [@ EXCEPT !.status = "pending", !.updated_at = ts]]
    ELSE J

\* the Err arm of a loop around process_link_job / process_features_job: the
\* error is logged, no statement is sent to the store
OnJobError(J, id, ts) == J

GetMetadataStale(T, t) == IF t \in DOMAIN T THEN <<T[t]>> ELSE <<TrackRow(NULL, NULL)>>

\* SELECT ... FROM tracks where id = ?1, fetch_optional: Some(row) or None
get_track_metadata(T, t) == IF t \in DOMAIN T THEN <<T[t]>> ELSE <<>>

\* if tags.is_err() { .. the request by artist and title .. }
TagsNext(ok) == IF ok THEN "tags_index" ELSE "tags_fallback"

TagsResultFatal(tags) == IF tags = "err" THEN "head" ELSE "tags_index"

\* if let Ok(tags) = tags { write and index } else { warn!(..) }, then
\* mark_features_ok
TagsResult(tags) == IF tags = "err" THEN "mark" ELSE "tags_index"

\* ----------------------------------------------------------------- feed
\* while !shutdown.is_cancelled(): count_jobs(Link, Pending); an error or a
\* count of min_pending or more sleeps and starts over.
FeedAdmitsAlways(pending) == TRUE

\* if pending_links >= min_pending { sleep(..); continue; }
FeedAdmits(pending) == ~(pending >= MinPending)

FeedCount ==
    /\ fpc = "head"
    /\ \/ /\ shutdown
          /\ fpc' = "stopped"
          /\ lastOp' = Op("other", NULL)
       \/ /\ ~shutdown
          /\ IF FeedAdmits(count_jobs(jobs, "link", "pending"))
             THEN /\ fpc' = "token"
                  /\ lastOp' = Op("other", NULL)
             ELSE /\ fpc' = "head"
                  /\ lastOp' = Op("count_jobs", "min_pending")
       \/ /\ ~shutdown
          /\ fpc' = "head"
          /\ lastOp' = Op("other", NULL)
    /\ PipeKeep
    /\ UNCHANGED <<tracks, jobs, cl, shutdown, fleft, lpc, ljob, lmbid, gpc, gjob, gtags>>

\* The bearer token is kept or refreshed; a failed refresh skips the search.
FeedToken ==
    /\ fpc = "token"
    /\ fpc' \in {"search", "head"}
    /\ PipeFrame
    /\ UNCHANGED <<tracks, jobs, cl, shutdown, fleft, lpc, ljob, lmbid, gpc, gjob, gtags>>

\* The search request; it fails, or insert_tracks finds no items in it.
FeedSearch ==
    /\ fpc = "search"
    /\ fpc' \in {"batch", "head"}
    /\ PipeFrame
    /\ UNCHANGED <<tracks, jobs, cl, shutdown, fleft, lpc, ljob, lmbid, gpc, gjob, gtags>>

\* insert_tracks: the batch request fails, or gives the tracks to ensure
\* (null entries are skipped).
FeedBatch ==
    /\ fpc = "batch"
    /\ \/ /\ fpc' = "head"
          /\ fleft' = fleft
       \/ /\ fpc' = "items"
          /\ fleft' \in 0..MaxBatch
    /\ PipeFrame
    /\ UNCHANGED <<tracks, jobs, cl, shutdown, lpc, ljob, lmbid, gpc, gjob, gtags>>

\* for track in tracks: ensure_track(SpotifyTrack::new(&track)), its result
\* logged.
FeedItem ==
    /\ fpc = "items"
    /\ fleft > 0
    /\ cl[FeedClient].pc = "idle"
    /\ \E sid \in FeedIds \cup {NULL}, isrc \in Isrcs \cup {NULL} :
        EnsureTrackBegin(FeedClient, sid, isrc)
    /\ fleft' = fleft - 1
    /\ UNCHANGED <<jobSeq, now, writer, trackSeq, calls, dels>>
    /\ UNCHANGED claimVars
    /\ UNCHANGED utilVars
    /\ UNCHANGED <<tracks, jobs, shutdown, fpc, lpc, ljob, lmbid, gpc, gjob, gtags>>

FeedItemsDone ==
    /\ fpc = "items"
    /\ fleft = 0
    /\ cl[FeedClient].pc = "idle"
    /\ fpc' = "head"
    /\ PipeFrame
    /\ UNCHANGED <<tracks, jobs, cl, shutdown, fleft, lpc, ljob, lmbid, gpc, gjob, gtags>>

\* ----------------------------------------------------------------- link
\* while !shutdown.is_cancelled(): musicbrainz_rate.wait()
LinkWait ==
    /\ lpc = "head"
    /\ cl[LinkClient].pc = "idle"
    /\ lpc' = IF shutdown THEN "stopped" ELSE "claim"
    /\ PipeFrame
    /\ UNCHANGED <<tracks, jobs, cl, shutdown, fpc, fleft, ljob, lmbid, gpc, gjob, gtags>>

\* The claim transaction of a loop, as one step: an error or no pending row
\* gives no job, else the selected row turns active and its descriptor, read
\* by the SELECT, is returned.
ClaimFor(k, j) ==
    /\ j \in SelectOldestPending(jobs, k)
    /\ ClaimRowsAffected(jobs, j) = 1
    /\ jobs' = ClaimSet(jobs, j, now)

LinkClaim ==
    /\ lpc = "claim"
    /\ \/ /\ lpc' = "head"
          /\ UNCHANGED <<jobs, ljob>>
       \/ \E j \in DOMAIN jobs :
          /\ ClaimFor("link", j)
          /\ ljob' = JobDesc(jobs, j)
          /\ lpc' = "meta"
    /\ PipeFrame
    /\ UNCHANGED <<tracks, cl, shutdown, fpc, fleft, lmbid, gpc, gjob, gtags>>

\* a loop that ends at the first job that fails
LinkJobFailedBreaks ==
    /\ lpc' = "stopped"
    /\ ljob' = NoRow
    /\ jobs' = OnJobError(jobs, ljob.job_id, now)
    /\ lastOp' = Logged("link job failed", "error")

\* if let Err(e) = self.process_link_job(job).await { error!(..) }: the
\* error is logged and nothing is written to the job
LinkJobFailed ==
    /\ lpc' = "head"
    /\ ljob' = NoRow
    /\ jobs' = OnJobError(jobs, ljob.job_id, now)
    /\ lastOp' = Logged("link job failed", "error")

\* process_link_job: get_track_metadata(track_id)?
LinkMeta ==
    /\ lpc = "meta"
    /\ \/ LinkJobFailed
       \/ /\ lpc' = IF get_track_metadata(tracks, ljob.track_id) = <<>>
                    THEN "fail" ELSE "lookup"
          /\ lastOp' = Op("other", NULL)
          /\ UNCHANGED <<jobs, ljob>>
    /\ PipeKeep
    /\ UNCHANGED <<tracks, cl, shutdown, fpc, fleft, lmbid, gpc, gjob, gtags>>

\* None => fail_job(job_id, "track not found")?; return Ok(())
LinkFail ==
    /\ lpc = "fail"
    /\ \/ LinkJobFailed
       \/ /\ jobs' = fail_job(jobs, ljob.job_id, "track not found", now)
          /\ lpc' = "head"
          /\ ljob' = NoRow
          /\ lastOp' = Logged("link.skip.no_track", "info")
    /\ PipeKeep
    /\ UNCHANGED <<tracks, cl, shutdown, fpc, fleft, lmbid, gpc, gjob, gtags>>

\* lookup_mbid_by_isrc or lookup_mbid_by_query: the first recording id of the
\* response; an Http error (retries exhausted, no recording with an id); or a
\* panic of the task, when the response has no recordings array (unwrap).
LinkLookup ==
    /\ lpc = "lookup"
    /\ \/ \E m \in AuthorityIds :
          /\ lmbid' = m
          /\ lpc' = "set_mbid"
          /\ lastOp' = Op("other", NULL)
          /\ UNCHANGED <<jobs, ljob>>
       \/ /\ LinkJobFailed
          /\ lmbid' = NULL
       \/ /\ lpc' = "panicked"
          /\ lmbid' = NULL
          /\ ljob' = NoRow
          /\ lastOp' = Op("other", NULL)
          /\ UNCHANGED jobs
    /\ PipeKeep
    /\ UNCHANGED <<tracks, cl, shutdown, fpc, fleft, gpc, gjob, gtags>>

\* set_mbid(track_id, mbid)?: a UNIQUE violation or another store error is
\* returned.
LinkSetMbid ==
    /\ lpc = "set_mbid"
    /\ \/ /\ ~SetMbidViolates(tracks, ljob.track_id, lmbid)
          /\ tracks' = set_mbid(tracks, ljob.track_id, lmbid)
          /\ lpc' = "complete"
          /\ lastOp' = Op("other", NULL)
          /\ UNCHANGED <<jobs, ljob, lmbid>>
       \/ /\ LinkJobFailed
          /\ tracks' = tracks
          /\ lmbid' = NULL
    /\ PipeKeep
    /\ UNCHANGED <<cl, shutdown, fpc, fleft, gpc, gjob, gtags>>

\* complete_job(job_id)?
LinkComplete ==
    /\ lpc = "complete"
    /\ \/ /\ jobs' = complete_job(jobs, ljob.job_id, now)
          /\ lpc' = "enqueue_features"
          /\ ljob' = ljob
          /\ lastOp' = Op("other", NULL)
       \/ LinkJobFailed
    /\ lmbid' = NULL
    /\ PipeKeep
    /\ UNCHANGED <<tracks, cl, shutdown, fpc, fleft, gpc, gjob, gtags>>

\* if let Err(e) = enqueue_features(track_id) { warn!(..) }; Ok(()): the
\* SELECT of enqueue_features runs (or fails, first disjunct), its INSERT is
\* the client's next step
LinkEnqueueFeatures ==
    /\ lpc = "enqueue_features"
    /\ \/ /\ cl' = cl
          /\ lastOp' = Logged("enqueue_features", "warn")
       \/ EnqFeaturesBegin(LinkClient, ljob.track_id)
    /\ lpc' = "head"
    /\ ljob' = NoRow
    /\ PipeKeep
    /\ UNCHANGED <<tracks, jobs, shutdown, fpc, fleft, lmbid, gpc, gjob, gtags>>

\* ------------------------------------------------------------- features
\* while !shutdown.is_cancelled()
FeaturesWait ==
    /\ gpc = "head"
    /\ gpc' = IF shutdown THEN "stopped" ELSE "claim"
    /\ PipeFrame
    /\ UNCHANGED <<tracks, jobs, cl, shutdown, fpc, fleft, lpc, ljob, lmbid, gjob, gtags>>

FeaturesClaim ==
    /\ gpc = "claim"
    /\ \/ /\ gpc' = "head"
          /\ UNCHANGED <<jobs, gjob, gtags>>
       \/ \E j \in DOMAIN jobs :
          /\ ClaimFor("features", j)
          /\ gjob' = JobDesc(jobs, j)
          /\ gtags' = NULL
          /\ gpc' = "meta"
    /\ PipeFrame
    /\ UNCHANGED <<tracks, cl, shutdown, fpc, fleft, lpc, ljob, lmbid>>

\* if let Err(e) = self.process_features_job(job).await { error!(..) }
FeaturesJobFailed ==
    /\ gpc' = "head"
    /\ gjob' = NoRow
    /\ jobs' = OnJobError(jobs, gjob.job_id, now)
    /\ lastOp' = Logged("features job failed", "error")

\* process_features_job: get_track_metadata(track_id)?; None goes to
\* fail_job; a row without a recording id is NotFound("No mbid found").
FeaturesMeta ==
    /\ gpc = "meta"
    /\ LET meta == get_track_metadata(tracks, gjob.track_id) IN
       \/ FeaturesJobFailed
       \/ /\ meta = <<>>
          /\ gpc' = "fail"
          /\ lastOp' = Op("other", NULL)
          /\ UNCHANGED <<jobs, gjob>>
       \/ /\ meta # <<>>
          /\ IF meta[1].mb_recording_id = NULL
             THEN FeaturesJobFailed
             ELSE /\ gpc' = "fetch"
                  /\ lastOp' = Op("other", NULL)
                  /\ UNCHANGED <<jobs, gjob>>
    /\ PipeKeep
    /\ UNCHANGED <<tracks, cl, shutdown, fpc, fleft, lpc, ljob, lmbid, gtags>>

\* None => fail_job(job_id, "track not found")?; return Ok(())
FeaturesFail ==
    /\ gpc = "fail"
    /\ \/ FeaturesJobFailed
       \/ /\ jobs' = fail_job(jobs, gjob.job_id, "track not found", now)
          /\ gpc' = "head"
          /\ gjob' = NoRow
          /\ lastOp' = Logged("skip.no_track", "info")
    /\ PipeKeep
    /\ UNCHANGED <<tracks, cl, shutdown, fpc, fleft, lpc, ljob, lmbid, gtags>>

\* The high-level and low-level requests with their raw files and feature
\* rows: every error among them is returned.
FeaturesFetch ==
    /\ gpc = "fetch"
    /\ \/ /\ gpc' = "tags"
          /\ lastOp' = Op("other", NULL)
          /\ UNCHANGED <<jobs, gjob>>
       \/ FeaturesJobFailed
    /\ PipeKeep
    /\ UNCHANGED <<tracks, cl, shutdown, fpc, fleft, lpc, ljob, lmbid, gtags>>

\* let mut tags = http_with_retry(track_top_tags_by_mbid(mbid)).await
FeaturesTags ==
    /\ gpc = "tags"
    /\ \E ok \in BOOLEAN :
        /\ gtags' = IF ok THEN "by_mbid" ELSE "err"
        /\ gpc' = TagsNext(ok)
    /\ PipeFrame
    /\ UNCHANGED <<tracks, jobs, cl, shutdown, fpc, fleft, lpc, ljob, lmbid, gjob>>

\* if tags.is_err() { tags = http_with_retry(track_top_tags(artist, title)) };
\* still an error: warn!("lastfm tags missing")
FeaturesTagsFallback ==
    /\ gpc = "tags_fallback"
    /\ \/ /\ gtags' = "by_query"
          /\ gpc' = TagsResult("by_query")
          /\ lastOp' = Op("other", NULL)
       \/ /\ gtags' = "err"
          /\ gpc' = TagsResult("err")
          /\ lastOp' = Logged("lastfm tags missing", "warn")
    /\ PipeKeep
    /\ UNCHANGED <<tracks, jobs, cl, shutdown, fpc, fleft, lpc, ljob, lmbid, gjob>>

\* if let Ok(tags) = tags: sink.write_json(..)?, index_raw_file(..)?
FeaturesTagsIndex ==
    /\ gpc = "tags_index"
    /\ \/ /\ gpc' = "mark"
          /\ lastOp' = Op("other", NULL)
          /\ UNCHANGED <<jobs, gjob>>
       \/ FeaturesJobFailed
    /\ PipeKeep
    /\ UNCHANGED <<tracks, cl, shutdown, fpc, fleft, lpc, ljob, lmbid, gtags>>

\* mark_features_ok(track_id)?
FeaturesMark ==
    /\ gpc = "mark"
    /\ \/ /\ tracks' = mark_features_ok(tracks, gjob.track_id)
          /\ gpc' = "complete"
          /\ lastOp' = Op("other", NULL)
          /\ UNCHANGED <<jobs, gjob>>
       \/ /\ FeaturesJobFailed
          /\ tracks' = tracks
    /\ PipeKeep
    /\ UNCHANGED <<cl, shutdown, fpc, fleft, lpc, ljob, lmbid, gtags>>

\* complete_job(job_id)?; info!("features.done"); Ok(())
FeaturesComplete ==
    /\ gpc = "complete"
    /\ \/ /\ jobs' = complete_job(jobs, gjob.job_id, now)
          /\ gpc' = "head"
          /\ gjob' = NoRow
          /\ lastOp' = Logged("features.done", "info")
       \/ FeaturesJobFailed
    /\ PipeKeep
    /\ UNCHANGED <<tracks, cl, shutdown, fpc, fleft, lpc, ljob, lmbid, gtags>>

\* ------------------------------------------------------- run, environment
\* ctrl_c: shutdown.cancel()
Signal ==
    /\ ~shutdown
    /\ shutdown' = TRUE
    /\ PipeFrame
    /\ UNCHANGED <<tracks, jobs, cl, fpc, fleft, lpc, ljob, lmbid, gpc, gjob, gtags>>

\* run's select: the link task ended (it panicked); shutdown.cancel()
RunSelect ==
    /\ lpc = "panicked"
    /\ ~shutdown
    /\ shutdown' = TRUE
    /\ PipeFrame
    /\ UNCHANGED <<tracks, jobs, cl, fpc, fleft, lpc, ljob, lmbid, gpc, gjob, gtags>>

\* DELETE FROM tracks WHERE id = t, made outside the crawler: the track's
\* jobs go with it.
DeleteTrack ==
    /\ dels < MaxDeletes
    /\ dels' = dels + 1
    /\ \E t \in DOMAIN tracks :
        /\ tracks' = [x \in DOMAIN tracks \ {t} |-> tracks[x]]
        /\ jobs' = [j \in {i \in DOMAIN jobs : jobs[i].track_id # t} |-> jobs[j]]
    /\ lastOp' = Op("other", NULL)
    /\ UNCHANGED <<jobSeq, now, writer, trackSeq, calls>>
    /\ UNCHANGED claimVars
    /\ UNCHANGED utilVars
    /\ UNCHANGED <<cl, shutdown, fpc, fleft, lpc, ljob, lmbid, gpc, gjob, gtags>>

NextPipe ==
    \/ FeedCount
    \/ FeedToken
    \/ FeedSearch
    \/ FeedBatch
    \/ FeedItem
    \/ FeedItemsDone
    \/ UpsertUpdate(FeedClient)
    \/ UpsertInsert(FeedClient)
    \/ EnsureSelectLinked(FeedClient)
    \/ EnsureEnqueue(FeedClient)
    \/ ClientError(FeedClient)
    \/ LinkWait
    \/ LinkClaim
    \/ LinkMeta
    \/ LinkFail
    \/ LinkLookup
    \/ LinkSetMbid
    \/ LinkComplete
    \/ LinkEnqueueFeatures
    \/ EnqFeaturesEnqueue(LinkClient)
    \/ ClientError(LinkClient)
    \/ FeaturesWait
    \/ FeaturesClaim
    \/ FeaturesMeta
    \/ FeaturesFail
    \/ FeaturesFetch
    \/ FeaturesTags
    \/ FeaturesTagsFallback
    \/ FeaturesTagsIndex
    \/ FeaturesMark
    \/ FeaturesComplete
    \/ Signal
    \/ RunSelect
    \/ DeleteTrack

SpecPipe == InitPipe /\ [][NextPipe]_vars

\* C7: a job row that is done or failed keeps its status over every step of
\* the running crawler for as long as the row exists.
C7_Step ==
    \A j \in DOMAIN jobs :
        (jobs[j].status \in {"done", "failed"} /\ j \in DOMAIN jobs')
            => jobs'[j].status = jobs[j].status

C7_TerminalSticky == [][C7_Step]_vars

\* The feed's ensure_track has just run its enqueue for a track whose link
\* job is failed.
C7_Witness ==
    /\ lastOp = Op("enqueue_job_if_missing", "failed")
    /\ fpc = "items"
    /\ \E j \in DOMAIN jobs : jobs[j].kind = "link" /\ jobs[j].status = "failed"

\* C8: a done link job's track has linked_ok set and a done features job's
\* track has features_ok set.
C8_DoneImpliesFlag ==
    \A j \in DOMAIN jobs :
        jobs[j].status = "done" =>
            /\ jobs[j].track_id \in DOMAIN tracks
            /\ jobs[j].kind = "link" => tracks[jobs[j].track_id].linked_ok
            /\ jobs[j].kind = "features" => tracks[jobs[j].track_id].features_ok

\* Both jobs of one track are done.
C8_Witness ==
    \E j1, j2 \in DOMAIN jobs :
        /\ jobs[j1].track_id = jobs[j2].track_id
        /\ jobs[j1].kind = "link" /\ jobs[j1].status = "done"
        /\ jobs[j2].kind = "features" /\ jobs[j2].status = "done"

\* C9: a track with linked_ok set has a non-empty authority recording id,
\* and a track with features_ok set has linked_ok set.
C9_FlagsImplyIds ==
    \A t \in DOMAIN tracks :
        /\ tracks[t].linked_ok => tracks[t].mb_recording_id \notin {NULL, ""}
        /\ tracks[t].features_ok => tracks[t].linked_ok

\* the link loop is past the processing of job j: it holds another job or
\* none, and its enqueue_features call for the job's track has returned
LinkFinished(j) ==
    /\ ljob.job_id # j
    /\ ~(cl[LinkClient].pc # "idle" /\ cl[LinkClient].tid = jobs[j].track_id)

\* C15: whenever the link loop has finished a link job and left it done, the
\* job's track has an authority id and linked_ok, and a features job for the
\* track exists.
C15_DoneLinkHasFeaturesJob ==
    \A j \in DOMAIN jobs :
        (jobs[j].kind = "link" /\ jobs[j].status = "done" /\ LinkFinished(j)) =>
            /\ jobs[j].track_id \in DOMAIN tracks
            /\ tracks[jobs[j].track_id].linked_ok
            /\ tracks[jobs[j].track_id].mb_recording_id # NULL
            /\ \E f \in DOMAIN jobs :
                   jobs[f].kind = "features" /\ jobs[f].track_id = jobs[j].track_id

\* C16: a step in which process_link_job or process_features_job returns an
\* error from anywhere but the track-not-found branch leaves the jobs table
\* as it was, the job (while its row exists) active, and the loop back at
\* the head of its next iteration.
C16_Step ==
    /\ (lpc \in {"meta", "lookup", "set_mbid", "complete"}
            /\ lastOp' = Logged("link job failed", "error")) =>
           /\ lpc' = "head"
           /\ jobs' = jobs
           /\ ljob.job_id \in DOMAIN jobs' => jobs'[ljob.job_id].status = "active"
    /\ (gpc \in {"meta", "fetch", "tags_index", "mark", "complete"}
            /\ lastOp' = Logged("features job failed", "error")) =>
           /\ gpc' = "head"
           /\ jobs' = jobs
           /\ gjob.job_id \in DOMAIN jobs' => jobs'[gjob.job_id].status = "active"

C16_ErrorLeavesActive == [][C16_Step]_vars

\* the link loop is back at its head after a logged error and the job it
\* held is still active
C16_Witness ==
    /\ lastOp = Logged("link job failed", "error")
    /\ lpc = "head"
    /\ ljob = NoRow
    /\ \E j \in DOMAIN jobs : jobs[j].kind = "link" /\ jobs[j].status = "active"

\* C17: when the metadata read finds no row for the job's track, the worker
\* goes to fail_job(job_id, "track not found") and to nothing else (no
\* lookup, no fetch), and when that statement succeeds the call returns Ok:
\* the skip is logged, not an error, and the jobs table is what fail_job
\* makes of it.
C17_Step ==
    /\ (lpc = "meta" /\ lpc' \notin {"meta", "head"}) =>
           (lpc' = "fail" <=> ljob.track_id \notin DOMAIN tracks)
    /\ (lpc = "meta" /\ lpc' = "lookup") => ljob.track_id \in DOMAIN tracks
    /\ (lpc = "fail" /\ lpc' # "fail") =>
           /\ lpc' = "head"
           /\ lastOp' # Logged("link job failed", "error") =>
                  /\ lastOp' = Logged("link.skip.no_track", "info")
                  /\ jobs' = fail_job(jobs, ljob.job_id, "track not found", now)
    /\ (gpc = "meta" /\ gpc' \notin {"meta", "head"}) =>
           (gpc' = "fail" <=> gjob.track_id \notin DOMAIN tracks)
    /\ (gpc = "meta" /\ gpc' = "fetch") => gjob.track_id \in DOMAIN tracks
    /\ (gpc = "fail" /\ gpc' # "fail") =>
           /\ gpc' = "head"
           /\ lastOp' # Logged("features job failed", "error") =>
                  /\ lastOp' = Logged("skip.no_track", "info")
                  /\ jobs' = fail_job(jobs, gjob.job_id, "track not found", now)

C18_Step ==
    /\ (gpc = "tags_fallback" /\ gtags' = "err" /\ gpc' # "tags_fallback") =>
           /\ gpc' = "mark"
           /\ gjob' = gjob
           /\ jobs' = jobs
    /\ (gpc # "tags_fallback" /\ gpc' = "tags_fallback") =>
           /\ gpc = "tags"
           /\ gtags' = "err"
    /\ (gpc = "tags" /\ gtags' # "err" /\ gpc' # "tags") => gpc' = "tags_index"
    /\ (gpc = "complete" /\ lastOp' = Logged("features.done", "info")
            /\ gjob.job_id \in DOMAIN jobs) =>
           /\ jobs'[gjob.job_id].status = "done"
           /\ gjob.track_id \in DOMAIN tracks' => tracks'[gjob.track_id].features_ok

C18_MissingTagsNotFatal == [][C18_Step]_vars

\* a features job is done, its track has features_ok, and both of its tag
\* requests had failed
C18_Witness ==
    /\ lastOp = Logged("features.done", "info")
    /\ gtags = "err"
    /\ gpc = "head"
    /\ \E j \in DOMAIN jobs :
           /\ jobs[j].kind = "features"
           /\ jobs[j].status = "done"
           /\ tracks[jobs[j].track_id].features_ok

\* C21: the feed leaves the top of its loop for the token refresh only when
\* the count of pending link jobs it has just read is below min_pending; the
\* search, the batch request and the admission of tracks are reached only
\* through that step, each from the one before it; an iteration that read
\* min_pending or more changes no table and starts no call.
C21_Step ==
    /\ (fpc = "head" /\ fpc' \notin {"head", "stopped"}) =>
           /\ fpc' = "token"
           /\ count_jobs(jobs, "link", "pending") < MinPending
    /\ (fpc' = "search" /\ fpc # "search") => fpc = "token"
    /\ (fpc' = "batch" /\ fpc # "batch") => fpc = "search"
    /\ (fpc' = "items" /\ fpc # "items") => fpc = "batch"
    /\ (cl[FeedClient].pc = "idle" /\ cl'[FeedClient].pc # "idle") => fpc = "items"
    /\ lastOp' = Op("count_jobs", "min_pending") =>
           /\ fpc' = "head"
           /\ tracks' = tracks
           /\ jobs' = jobs
           /\ cl' = cl

C21_FeedAdmission == [][C21_Step]_vars

\* the feed has just read min_pending or more pending link jobs and is back
\* at the top of its loop
C21_Witness ==
    /\ lastOp = Op("count_jobs", "min_pending")
    /\ fpc = "head"
    /\ count_jobs(jobs, "link", "pending") >= MinPending
    /\ cl[FeedClient].pc = "idle"

\* C26: a statement of ensure_track before the enqueue changes no job; when
\* the call returns without an enqueue the track's linked_ok is true; when it
\* returns after its enqueue every job that existed is as it was, status and
\* attempt included, a track whose linked_ok is false has a link job, and
\* for a track whose linked_ok is true no job was created.
C26_Step ==
    \A c \in Clients :
        LET t == cl[c].tid IN
        /\ (cl[c].pc \in {"update", "insert", "select_linked"} /\ cl'[c] # cl[c]) =>
               jobs' = jobs
        /\ (cl[c].pc = "select_linked" /\ cl'[c].pc = "idle"
                /\ lastOp' = Op("ensure_track", "linked")) =>
               (t \in DOMAIN tracks' /\ tracks'[t].linked_ok)
        /\ (cl[c].pc = "enqueue_link" /\ cl'[c].pc = "idle"
                /\ lastOp'.op = "enqueue_job_if_missing" /\ lastOp'.met # "no_track") =>
               /\ \A j \in DOMAIN jobs : j \in DOMAIN jobs' /\ jobs'[j] = jobs[j]
               /\ t \in DOMAIN tracks'
               /\ ~tracks'[t].linked_ok => JobOf(jobs', t, "link") # {}
               /\ tracks'[t].linked_ok => jobs' = jobs

C26_EnsureTrackJobs == [][C26_Step]_vars

\* ensure_track has just returned for a track that is not linked and whose
\* link job had failed after one attempt: the job is still failed
C26_Witness ==
    /\ lastOp = Op("enqueue_job_if_missing", "failed")
    /\ cl[FeedClient].pc = "idle"
    /\ \E j \in DOMAIN jobs :
        /\ jobs[j].kind = "link"
        /\ jobs[j].status = "failed"
        /\ jobs[j].attempt = 1
        /\ jobs[j].track_id \in DOMAIN tracks
        /\ ~tracks[jobs[j].track_id].linked_ok

\* a track that has a features job is linked and its link job is done
FeaturesJobLinked(J, T) ==
    \A j \in DOMAIN J :
        J[j].kind = "features" =>
            /\ J[j].track_id \in DOMAIN T
            /\ T[J[j].track_id].linked_ok
            /\ \E i \in JobOf(J, J[j].track_id, "link") : J[i].status = "done"

\* C27: a features job is inserted pending and only for a track that exists
\* with linked_ok true and features_ok false; the INSERT of enqueue_features
\* changes no track and no job that exists; and after every step of the
\* pipeline a track that has a features job is linked with its link job done.
C27_Step ==
    /\ \A j \in DOMAIN jobs' \ DOMAIN jobs :
        jobs'[j].kind = "features" =>
            /\ jobs'[j].status = "pending"
            /\ jobs'[j].track_id \in DOMAIN tracks
            /\ tracks[jobs'[j].track_id].linked_ok
            /\ ~tracks[jobs'[j].track_id].features_ok
    /\ (cl[LinkClient].pc = "enqueue_features" /\ cl'[LinkClient].pc = "idle") =>
           /\ tracks' = tracks
           /\ \A j \in DOMAIN jobs : j \in DOMAIN jobs' /\ jobs'[j] = jobs[j]
    /\ FeaturesJobLinked(jobs', tracks')

C27_FeaturesOnlyWhenLinked == [][C27_Step]_vars

\* enqueue_features has just inserted the features job of a linked track
\* whose link job is done
C27_Witness ==
    /\ lastOp = Op("enqueue_job_if_missing", "absent")
    /\ cl[LinkClient].pc = "idle"
    /\ \E j \in DOMAIN jobs :
        /\ jobs[j].kind = "features"
        /\ jobs[j].status = "pending"
        /\ tracks[jobs[j].track_id].linked_ok
        /\ ~tracks[jobs[j].track_id].features_ok
        /\ \E i \in JobOf(jobs, jobs[j].track_id, "link") : jobs[i].status = "done"

\* C29: a response of unexpected shape fails the job and nothing else: the
\* link loop is never ended by a response.
C29_LinkLoopSurvives == lpc # "panicked"

\* C36: every job's attempt count is 0 or 1, 0 exactly when the job is
\* pending and 1 exactly when it is active, done or failed: no job is claimed
\* a second time.
C36_AttemptMatchesStatus ==
    \A j \in DOMAIN jobs :
        /\ jobs[j].attempt \in {0, 1}
        /\ jobs[j].attempt = 0 <=> jobs[j].status = "pending"

\* a link job is done after its one claim and the features job it led to
\* waits unclaimed
C36_Witness ==
    \E j, k \in DOMAIN jobs :
        /\ jobs[j].kind = "link" /\ jobs[j].status = "done" /\ jobs[j].attempt = 1
        /\ jobs[k].kind = "features" /\ jobs[k].status = "pending" /\ jobs[k].attempt = 0

\* ====================================================== SpecGate
\* RateGate: callers of wait() on one gate.  The guard of the tokio mutex is
\* held from the lock to the end of the call, the sleep included; the clock
\* may advance between any two steps and a sleep may end late.
Waiters == 1..NWaiters

\* RateGate::new: state = Instant::now() - min_interval
InitGate ==
    /\ clock = 0
    /\ gateLast = 0 - Interval
    /\ gateLock = NoProc
    /\ wpc = [c \in Waiters |-> "idle"]
    /\ wdue = [c \in Waiters |-> 0]
    /\ rets = <<>>
    /\ InitStoreVars
    /\ InitPipeVars
    /\ InitHttpVars
    /\ InitBackoffVars
    /\ InitRunVars
    /\ InitPaceVars
    /\ InitFileVars
    /\ InitJobVars
    /\ InitTokVars
    /\ InitExtVars

GateFrame ==
    /\ UNCHANGED coreVars
    /\ UNCHANGED httpVars
    /\ UNCHANGED backoffVars
    /\ UNCHANGED runVars
    /\ UNCHANGED paceVars
    /\ UNCHANGED fileVars
    /\ UNCHANGED jobVars
    /\ UNCHANGED <<tokVars, extVars>>

\* elapsed = last.elapsed(); if elapsed < min_interval the caller sleeps
\* min_interval - elapsed: the instant the sleep is due, t when there is none.
GateDueNoSleep(last, t) == t

GateDue(last, t) ==
    IF t - last < Interval THEN t + (Interval - (t - last)) ELSE t

\* let mut last = self.state.lock().await
WaitLock(c) ==
    /\ wpc[c] = "idle"
    /\ gateLock = NoProc
    /\ Len(rets) < MaxWaits
    /\ gateLock' = c
    /\ wpc' = [wpc EXCEPT ![c] = "locked"]
    /\ UNCHANGED <<clock, gateLast, wdue, rets>>
    /\ GateFrame

\* let elapsed = last.elapsed(); if elapsed < self.min_interval { sleep(..) }
WaitElapsed(c) ==
    /\ wpc[c] = "locked"
    /\ wdue' = [wdue EXCEPT ![c] = GateDue(gateLast, clock)]
    /\ wpc' = [wpc EXCEPT ![c] = "sleeping"]
    /\ UNCHANGED <<clock, gateLast, gateLock, rets>>
    /\ GateFrame

\* the sleep is over (at once when there was none): *last = Instant::now();
\* the guard is dropped and wait() returns
WaitStamp(c) ==
    /\ wpc[c] = "sleeping"
    /\ clock >= wdue[c]
    /\ gateLast' = clock
    /\ gateLock' = NoProc
    /\ rets' = Append(rets, clock)
    /\ wpc' = [wpc EXCEPT ![c] = "idle"]
    /\ UNCHANGED <<clock, wdue>>
    /\ GateFrame

GateTick ==
    /\ clock < MaxClock
    /\ clock' = clock + 1
    /\ UNCHANGED <<gateLast, gateLock, wpc, wdue, rets>>
    /\ GateFrame

NextGate ==
    \/ GateTick
    \/ \E c \in Waiters : WaitLock(c)
    \/ \E c \in Waiters : WaitElapsed(c)
    \/ \E c \in Waiters : WaitStamp(c)

SpecGate == InitGate /\ [][NextGate]_vars

\* C11: any two successive returns of wait() are at least the minimum
\* interval apart, whichever callers they belong to.
C11_ReturnsSpaced ==
    \A i \in 2..Len(rets) : rets[i] - rets[i - 1] >= Interval

\* Three calls have returned, the first without a sleep and the second
\* exactly one interval after it.
C11_Witness ==
    /\ Len(rets) >= 3
    /\ rets[2] - rets[1] = Interval
    /\ rets[1] = 0

\* ====================================================== SpecHttp
\* http_with_retry: one call with retry budget hmax against every sequence of
\* request outcomes.
Statuses == {200, 304, 404, 429, 500, 503}

\* what send() yields: a transport error, or a response with a status and a
\* body that is a JSON document or not
Transport == [transport |-> TRUE, status |-> 0, json |-> FALSE]

Response(s, j) == [transport |-> FALSE, status |-> s, json |-> j]

Outcomes ==
    {Transport} \cup {Response(s, FALSE) : s \in Statuses} \cup {Response(200, TRUE)}

\* StatusCode::is_success, StatusCode::is_server_error
is_success(s) == s >= 200 /\ s <= 299

is_server_error(s) == s >= 500 /\ s <= 599

\* impl From<reqwest::Error> for CrawlerError
reqwest_error_kind == "Http"

HttpOk == [ok |-> TRUE, kind |-> NULL]

HttpErr(k) == [ok |-> FALSE, kind |-> k]

RetryableAny(s) == TRUE

\* let retryable = status.as_u16() == 429 || status.is_server_error()
Retryable(s) == s = 429 \/ is_server_error(s)

ExhaustedLate(a, max) == a > max

\* attempt >= max_retries
Exhausted(a, max) == a >= max

\* every outcome seen so far is a failure that the helper retries
RetryableFailure(o) == o.transport \/ Retryable(o.status)

InitHttp ==
    /\ hmax \in 0..MaxRetries
    /\ hclone \in BOOLEAN
    /\ hpc = "send"
    /\ attempt = 0
    /\ hlast = NULL
    /\ hsent = 0
    /\ hslept = 0
    /\ hretry = TRUE
    /\ hres = NULL
    /\ InitStoreVars
    /\ InitPipeVars
    /\ InitGateVars
    /\ InitBackoffVars
    /\ InitRunVars
    /\ InitPaceVars
    /\ InitFileVars
    /\ InitJobVars
    /\ InitTokVars
    /\ InitExtVars

HttpFrame ==
    /\ UNCHANGED coreVars
    /\ UNCHANGED gateVars
    /\ UNCHANGED backoffVars
    /\ UNCHANGED runVars
    /\ UNCHANGED paceVars
    /\ UNCHANGED fileVars
    /\ UNCHANGED jobVars
    /\ UNCHANGED <<tokVars, extVars>>

\* request.try_clone() is None: Http("non-cloneable request"), nothing sent
HttpCloneFail ==
    /\ hpc = "send"
    /\ ~hclone
    /\ hres' = HttpErr("Http")
    /\ hpc' = "done"
    /\ UNCHANGED <<hmax, hclone, attempt, hlast, hsent, hslept, hretry>>
    /\ HttpFrame

\* request.try_clone()?.send().await
HttpSend ==
    /\ hpc = "send"
    /\ hclone
    /\ \E o \in Outcomes :
        /\ hlast' = o
        /\ hretry' = (hretry /\ RetryableFailure(o))
    /\ hsent' = hsent + 1
    /\ hpc' = "match"
    /\ UNCHANGED <<hmax, hclone, attempt, hslept, hres>>
    /\ HttpFrame

\* Ok(resp) with resp.status().is_success(): resp.json().await?, return Ok(v)
HttpSuccess ==
    /\ hpc = "match"
    /\ ~hlast.transport
    /\ is_success(hlast.status)
    /\ hres' = IF hlast.json THEN HttpOk ELSE HttpErr(reqwest_error_kind)
    /\ hpc' = "done"
    /\ UNCHANGED <<hmax, hclone, attempt, hlast, hsent, hslept, hretry>>
    /\ HttpFrame

\* Ok(resp), not a success: !retryable || attempt >= max_retries returns
\* Http("status .. after .. retries"), anything else goes to the sleep
HttpStatus ==
    /\ hpc = "match"
    /\ ~hlast.transport
    /\ ~is_success(hlast.status)
    /\ IF ~Retryable(hlast.status) \/ Exhausted(attempt, hmax)
       THEN /\ hres' = HttpErr("Http")
            /\ hpc' = "done"
       ELSE /\ hpc' = "sleep"
            /\ UNCHANGED hres
    /\ UNCHANGED <<hmax, hclone, attempt, hlast, hsent, hslept, hretry>>
    /\ HttpFrame

\* Err(e): attempt >= max_retries returns Err(e.into()), else the sleep
HttpTransport ==
    /\ hpc = "match"
    /\ hlast.transport
    /\ IF Exhausted(attempt, hmax)
       THEN /\ hres' = HttpErr(reqwest_error_kind)
            /\ hpc' = "done"
       ELSE /\ hpc' = "sleep"
            /\ UNCHANGED hres
    /\ UNCHANGED <<hmax, hclone, attempt, hlast, hsent, hslept, hretry>>
    /\ HttpFrame

\* sleep(backoff).await; attempt += 1
HttpSleep ==
    /\ hpc = "sleep"
    /\ hslept' = hslept + 1
    /\ attempt' = attempt + 1
    /\ hpc' = "send"
    /\ UNCHANGED <<hmax, hclone, hlast, hsent, hretry, hres>>
    /\ HttpFrame

NextHttp ==
    \/ HttpCloneFail
    \/ HttpSend
    \/ HttpSuccess
    \/ HttpStatus
    \/ HttpTransport
    \/ HttpSleep

SpecHttp == InitHttp /\ [][NextHttp]_vars

C13_Step ==
    /\ (hpc = "match" /\ ~hlast.transport /\ ~is_success(hlast.status)
            /\ hlast.status # 429 /\ ~is_server_error(hlast.status)) =>
           /\ hpc' = "done"
           /\ hres' = HttpErr("Http")
           /\ hslept' = hslept
           /\ hsent' = hsent
    /\ (hpc = "match" /\ ~hlast.transport /\ is_success(hlast.status)) =>
           /\ hpc' = "done"
           /\ hlast.json => hres' = HttpOk
           /\ hslept' = hslept
           /\ hsent' = hsent
    /\ hpc' = "sleep" =>
           \/ hlast.transport
           \/ hlast.status = 429
           \/ is_server_error(hlast.status)
    /\ hpc = "done" => hpc' = "done" /\ hsent' = hsent /\ hslept' = hslept

C13_FatalAndSuccessEndAtOnce == [][C13_Step]_vars

\* a 404 ended the call after one retry although a further retry was allowed
C13_Witness ==
    /\ hpc = "done"
    /\ hsent = 2
    /\ hlast = Response(404, FALSE)
    /\ attempt = 1
    /\ hmax >= 2
    /\ hres = HttpErr("Http")

\* ====================================================== SpecBackoff
\* generate_backoff as a function of its arguments and of the jitter the
\* generator yields.  u64 arithmetic is kept, at a width of WordBits bits.
WordBits == 12

Word == 2 ^ WordBits

Jitters == 50..200

\* u64 multiplication, addition and left shift (release build: wrapping)
MulU64(x, y) == (x * y) % Word

AddU64(x, y) == (x + y) % Word

ShlU64(x, n) == (x * (2 ^ n)) % Word

ShiftNoCap(a) == a

\* attempt.min(6)
ShiftCap(a) == IF a < 6 THEN a ELSE 6

\* let exp = (1_u64 << attempt.min(6)) * ms
BackoffExp(ms, a) == MulU64(ShlU64(1, ShiftCap(a)), ms)

\* Duration::from_millis(exp + jitter), in milliseconds
generate_backoff(ms, a, jitter) == AddU64(BackoffExp(ms, a), jitter)

InitBackoff ==
    /\ bms \in 0..MaxBase
    /\ battempt \in 0..MaxAttempt
    /\ bres = <<>>
    /\ InitStoreVars
    /\ InitPipeVars
    /\ InitGateVars
    /\ InitHttpVars
    /\ InitRunVars
    /\ InitPaceVars
    /\ InitFileVars
    /\ InitJobVars
    /\ InitTokVars
    /\ InitExtVars

\* let jitter = rng.gen_range(50..=200); one call, one draw
Backoff ==
    /\ bres = <<>>
    /\ \E j \in Jitters : bres' = <<generate_backoff(bms, battempt, j)>>
    /\ UNCHANGED <<bms, battempt>>
    /\ UNCHANGED coreVars
    /\ UNCHANGED gateVars
    /\ UNCHANGED httpVars
    /\ UNCHANGED runVars
    /\ UNCHANGED paceVars
    /\ UNCHANGED fileVars
    /\ UNCHANGED jobVars
    /\ UNCHANGED <<tokVars, extVars>>

NextBackoff == Backoff

SpecBackoff == InitBackoff /\ [][NextBackoff]_vars

Pow2Capped(a) == IF a >= 6 THEN 64 ELSE 2 ^ a

\* C14: the duration returned is base * 2^min(attempt, 6) plus one jitter in
\* 50..200 ms; the exponential part never decreases as attempt grows and is
\* base * 64 from attempt 6 on.
C14_BackoffFormula ==
    /\ bres # <<>> =>
           \E j \in 50..200 : bres[1] = bms * Pow2Capped(battempt) + j
    /\ \A a \in 0..MaxAttempt :
           /\ a >= 6 => BackoffExp(bms, a) = bms * 64
           /\ a >= 1 => BackoffExp(bms, a - 1) <= BackoffExp(bms, a)

\* attempt 10 with the largest jitter: 2^6 is used, not 2^10
C14_Witness ==
    /\ bres # <<>>
    /\ battempt = 10
    /\ bms > 0
    /\ bres[1] = bms * 64 + 200

\* ====================================================== SpecRun
\* Crawler::run with its three worker tasks and the signal watcher, each loop
\* taken at the grain of one iteration, and main returning what run returns.
Workers == {"feed", "link", "features"}

InitRun ==
    /\ rpc = "select"
    /\ trigger = "waiting"
    /\ wst = [w \in Workers |-> "head"]
    /\ exited = FALSE
    /\ InitStoreVars
    /\ InitPipeVars
    /\ InitGateVars
    /\ InitHttpVars
    /\ InitBackoffVars
    /\ InitPaceVars
    /\ InitFileVars
    /\ InitJobVars
    /\ InitTokVars
    /\ InitExtVars

RunFrame ==
    /\ UNCHANGED <<storeVars, claimVars, clientVars>>
    /\ UNCHANGED <<fpc, fleft, lpc, ljob, lmbid, gpc, gjob, gtags, dels>>
    /\ UNCHANGED <<gateVars, httpVars, backoffVars, paceVars, fileVars, jobVars>>
    /\ UNCHANGED <<tokVars, extVars>>

\* while !self.shutdown.is_cancelled() { .. }
LoopHead(cancelled) == IF cancelled THEN "stopped" ELSE "iter"

\* the top of a loop: the token is read, the loop ends or starts an iteration
WorkerHead(w) ==
    /\ wst[w] = "head"
    /\ wst' = [wst EXCEPT ![w] = LoopHead(shutdown)]
    /\ UNCHANGED <<rpc, trigger, exited, shutdown>>
    /\ RunFrame

\* an iteration ends (its calls and sleeps return) and the loop is back at
\* its top
WorkerIter(w) ==
    /\ wst[w] = "iter"
    /\ wst' = [wst EXCEPT ![w] = "head"]
    /\ UNCHANGED <<rpc, trigger, exited, shutdown>>
    /\ RunFrame

\* lookup_mbid_by_isrc / lookup_mbid_by_query: unwrap() on a response with no
\* recordings array panics the link task
LinkPanic ==
    /\ wst["link"] = "iter"
    /\ wst' = [wst EXCEPT !["link"] = "panicked"]
    /\ UNCHANGED <<rpc, trigger, exited, shutdown>>
    /\ RunFrame

\* the runtime is dropped when main returns: a task still inside an iteration
\* is dropped at its next await
WorkerAbort(w) ==
    /\ exited
    /\ wst[w] = "iter"
    /\ wst' = [wst EXCEPT ![w] = "aborted"]
    /\ UNCHANGED <<rpc, trigger, exited, shutdown>>
    /\ RunFrame

\* the watcher task: ctrl_c().await is Ok, shutdown.cancel()
CtrlC ==
    /\ trigger = "waiting"
    /\ ~exited
    /\ trigger' = "done"
    /\ shutdown' = TRUE
    /\ UNCHANGED <<rpc, wst, exited>>
    /\ RunFrame

\* the watcher task: ctrl_c().await is Err (no handler could be installed),
\* the task ends without cancelling
CtrlCError ==
    /\ trigger = "waiting"
    /\ ~exited
    /\ trigger' = "done"
    /\ UNCHANGED <<rpc, wst, exited, shutdown>>
    /\ RunFrame

\* cancel() on a token handed out by Crawler::shutdown()
ExternalCancel ==
    /\ ~shutdown
    /\ ~exited
    /\ shutdown' = TRUE
    /\ UNCHANGED <<rpc, trigger, wst, exited>>
    /\ RunFrame

Ended(w) == wst[w] \in {"stopped", "panicked"}

\* tokio::select!: the token is cancelled, or a worker's handle is ready and
\* the arm cancels the token
RunSelectArm ==
    /\ rpc = "select"
    /\ shutdown \/ \E w \in Workers : Ended(w)
    /\ shutdown' = TRUE
    /\ rpc' = "await_trigger"
    /\ UNCHANGED <<trigger, wst, exited>>
    /\ RunFrame

\* let _ = trigger.await; info!("crawler.exit"); Ok(())
RunJoinTrigger ==
    /\ rpc = "await_trigger"
    /\ trigger = "done"
    /\ rpc' = "returned"
    /\ UNCHANGED <<trigger, wst, exited, shutdown>>
    /\ RunFrame

\* main: let () = crawler.run().await?; Ok(())
MainReturn ==
    /\ rpc = "returned"
    /\ ~exited
    /\ exited' = TRUE
    /\ UNCHANGED <<rpc, trigger, wst, shutdown>>
    /\ RunFrame

NextRun ==
    \/ \E w \in Workers : WorkerHead(w)
    \/ \E w \in Workers : WorkerIter(w)
    \/ LinkPanic
    \/ \E w \in Workers : WorkerAbort(w)
    \/ CtrlC
    \/ CtrlCError
    \/ ExternalCancel
    \/ RunSelectArm
    \/ RunJoinTrigger
    \/ MainReturn

SpecRun == InitRun /\ [][NextRun]_vars

\* C19: once a worker has ended and run is past its select the token is
\* cancelled; and with the token cancelled a loop inside an iteration goes
\* on to the end of that iteration, and a loop at its top stops.
C19_Step ==
    /\ ((\E w \in Workers : Ended(w)) /\ rpc # "select") => shutdown
    /\ \A w \in Workers :
        /\ (shutdown /\ wst[w] = "iter") => wst'[w] \in {"iter", "head", "panicked"}
        /\ (shutdown /\ wst[w] = "head") => wst'[w] \in {"head", "stopped"}

C19_CooperativeStop == [][C19_Step]_vars

\* a step run or the watcher can take with no event from outside
RunProgress ==
    \/ RunSelectArm
    \/ RunJoinTrigger

\* C20: once the token is cancelled, run has returned or can take its next
\* step without any further event.
C20_RunReturnsUnaided ==
    (shutdown /\ rpc # "returned") => ENABLED RunProgress

\* C31: when run has returned no worker is inside an iteration (processing a
\* job or admitting tracks): every loop has finished its iteration first.
C31_WorkersDrainedAtReturn ==
    rpc = "returned" => \A w \in Workers : wst[w] # "iter"

\* ====================================================== SpecPace
\* The timing of the link loop's requests to the authority service: the one
\* link worker calls the gate at the top of each iteration, claims a job,
\* reads its metadata and hands the lookup to http_with_retry, which sleeps
\* the backoff between the sends of one call.  Time is in milliseconds.

\* CrawlerLimits::default
MusicbrainzMs == 1100

QueuePollMs == 300

HttpMaxRetry == 3

HttpBackoffMs == 500

\* how long a store call, a response or a late wake-up may take
PaceDelays == {0, MaxLatency}

\* the ends of the jitter range
PaceJitters == {j \in Jitters : j = 50 \/ j = 200}

\* RateGate::wait on the link loop's gate: the instant its sleep is due
PaceDue(last, t) ==
    IF t - last < MusicbrainzMs THEN t + (MusicbrainzMs - (t - last)) ELSE t

InitPace ==
    /\ clock = 0
    /\ gateLast = 0 - MusicbrainzMs
    /\ gateLock = NoProc
    /\ wpc = <<>>
    /\ wdue = <<>>
    /\ rets = <<>>
    /\ ppc = "wait"
    /\ pattempt = 0
    /\ reqs = <<>>
    /\ InitStoreVars
    /\ InitPipeVars
    /\ InitHttpVars
    /\ InitBackoffVars
    /\ InitRunVars
    /\ InitFileVars
    /\ InitJobVars
    /\ InitTokVars
    /\ InitExtVars

PaceFrame ==
    /\ UNCHANGED coreVars
    /\ UNCHANGED <<gateLock, wpc, wdue, rets>>
    /\ UNCHANGED httpVars
    /\ UNCHANGED backoffVars
    /\ UNCHANGED runVars
    /\ UNCHANGED fileVars
    /\ UNCHANGED jobVars
    /\ UNCHANGED <<tokVars, extVars>>

\* self.musicbrainz_rate.wait().await: the sleep, then *last = Instant::now()
PaceWait ==
    /\ ppc = "wait"
    /\ Len(reqs) < MaxReqs
    /\ clock < MaxPaceMs
    /\ \E late \in PaceDelays :
        /\ clock' = PaceDue(gateLast, clock) + late
        /\ gateLast' = clock'
    /\ ppc' = "claim"
    /\ UNCHANGED <<pattempt, reqs>>
    /\ PaceFrame

\* claim_one_job gave a job; process_link_job reads its metadata and calls
\* the lookup: attempt = 0
PaceClaimJob ==
    /\ ppc = "claim"
    /\ \E d \in PaceDelays : clock' = clock + d
    /\ ppc' = "send"
    /\ pattempt' = 0
    /\ UNCHANGED <<gateLast, reqs>>
    /\ PaceFrame

\* claim_one_job gave no job or an error: sleep(poll)
PaceClaimNone ==
    /\ ppc = "claim"
    /\ \E d \in PaceDelays : clock' = clock + d + QueuePollMs
    /\ ppc' = "wait"
    /\ UNCHANGED <<gateLast, pattempt, reqs>>
    /\ PaceFrame

\* request.try_clone()..send(): a request to the authority service starts
PaceSend ==
    /\ ppc = "send"
    /\ Len(reqs) < MaxReqs
    /\ reqs' = Append(reqs, clock)
    /\ ppc' = "respond"
    /\ UNCHANGED <<clock, gateLast, pattempt>>
    /\ PaceFrame

\* the response is a success or a failure that ends the call: the rest of the
\* job is store calls, then the next iteration
PaceEnd ==
    /\ ppc = "respond"
    /\ \E d \in PaceDelays : clock' = clock + d
    /\ ppc' = "wait"
    /\ UNCHANGED <<gateLast, pattempt, reqs>>
    /\ PaceFrame

\* the response is a retryable failure and attempt < max_retries:
\* sleep(generate_backoff(backoff_ms, attempt)); attempt += 1; send again
PaceRetry ==
    /\ ppc = "respond"
    /\ pattempt < HttpMaxRetry
    /\ \E d \in PaceDelays, j \in PaceJitters :
        clock' = clock + d + generate_backoff(HttpBackoffMs, pattempt, j)
    /\ pattempt' = pattempt + 1
    /\ ppc' = "send"
    /\ UNCHANGED <<gateLast, reqs>>
    /\ PaceFrame

NextPace ==
    \/ PaceWait
    \/ PaceClaimJob
    \/ PaceClaimNone
    \/ PaceSend
    \/ PaceEnd
    \/ PaceRetry

SpecPace == InitPace /\ [][NextPace]_vars

\* C22: any two successive requests to the authority service, the retries
\* inside http_with_retry included, start at least the minimum interval
\* apart.
C22_RequestsPaced ==
    \A i \in 2..Len(reqs) : reqs[i] - reqs[i - 1] >= MusicbrainzMs

\* ====================================================== SpecRaw
\* The raw-file index: callers of index_raw_file with any track id, triple
\* and path, on the table raw_files with its UNIQUE (source, subtype, key).
RawSources == {"acousticbrainz", "lastfm"}

RawSubtypes == {"high-level", "low-level"}

RelPaths == {"p1", "p2"}

RawRow(t, src, sub, key, path, ts) ==
    [track_id |-> t, source |-> src, subtype |-> sub, key |-> key,
     rel_path |-> path, created_at |-> ts]

\* the rows holding the triple of row
RawOf(R, row) ==
    {i \in DOMAIN R : /\ R[i].source = row.source
                      /\ R[i].subtype = row.subtype
                      /\ R[i].key = row.key}

InsertRawOrReplace(R, seq, row) ==
    [raw |-> [i \in (DOMAIN R \ RawOf(R, row)) \cup {seq + 1} |->
                  IF i = seq + 1 THEN row ELSE R[i]],
     seq |-> seq + 1]

\* INSERT OR IGNORE INTO raw_files(track_id, source, subtype, key, rel_path,
\* created_at): a row that would repeat a triple is dropped
index_raw_file(R, seq, row) ==
    IF RawOf(R, row) # {}
    THEN [raw |-> R, seq |-> seq]
    ELSE [raw |-> R @@ ((seq + 1) :> row), seq |-> seq + 1]

InitRaw ==
    /\ InitStoreVars
    /\ InitPipeVars
    /\ InitGateVars
    /\ InitHttpVars
    /\ InitBackoffVars
    /\ InitRunVars
    /\ InitPaceVars
    /\ InitFileVars
    /\ InitJobVars
    /\ InitTokVars
    /\ InitExtVars

RawFrame ==
    /\ UNCHANGED <<tracks, jobs, jobSeq, writer>>
    /\ UNCHANGED claimVars
    /\ UNCHANGED <<trackSeq, cl>>
    /\ UNCHANGED pipeVars
    /\ UNCHANGED <<gateVars, httpVars, backoffVars, runVars, paceVars, jobVars>>
    /\ UNCHANGED <<tokVars, extVars>>
    /\ UNCHANGED <<feats, ftx>>

\* one call of index_raw_file that the store executes
IndexRawFile(t, src, sub, key, path) ==
    LET row == RawRow(t, src, sub, key, path, now)
        r == index_raw_file(raw, rawSeq, row) IN
    /\ calls < MaxRawCalls
    /\ calls' = calls + 1
    /\ raw' = r.raw
    /\ rawSeq' = r.seq
    /\ lastOp' = Op("index_raw_file",
                    [hit |-> IF RawOf(raw, row) # {} THEN "ignored" ELSE "inserted",
                     row |-> row])
    /\ UNCHANGED now
    /\ RawFrame

\* .execute(&self.pool).await? fails: the call returns the error
IndexRawFileError ==
    /\ calls < MaxRawCalls
    /\ calls' = calls + 1
    /\ lastOp' = Op("index_raw_file", [hit |-> "error", row |-> NULL])
    /\ UNCHANGED <<raw, rawSeq, now>>
    /\ RawFrame

RawTick ==
    /\ now < MaxTime
    /\ now' = now + 1
    /\ UNCHANGED <<raw, rawSeq, calls, lastOp>>
    /\ RawFrame

NextRaw ==
    \/ \E t \in TrackIds, src \in RawSources, sub \in RawSubtypes, key \in Mbids,
          path \in RelPaths : IndexRawFile(t, src, sub, key, path)
    \/ IndexRawFileError
    \/ RawTick

SpecRaw == InitRaw /\ [][NextRaw]_vars

\* C23: the raw-file table holds at most one row per (source, subtype, key),
\* and no step changes or removes a row that is there: a call with a triple
\* that exists, whatever its track id and path, leaves the first row's track
\* id, path and creation time as they were and adds no row.
C23_Step ==
    /\ \A i \in DOMAIN raw' : RawOf(raw', raw'[i]) = {i}
    /\ \A i \in DOMAIN raw : i \in DOMAIN raw' /\ raw'[i] = raw[i]
    /\ (lastOp'.op = "index_raw_file" /\ calls' # calls /\ lastOp'.met.hit = "ignored")
           => raw' = raw

C23_FirstRawRowStays == [][C23_Step]_vars

\* the last call repeated the triple of a row with another track id, another
\* path and at a later time, and the table still holds the first row alone
C23_Witness ==
    /\ lastOp.op = "index_raw_file"
    /\ lastOp.met.hit = "ignored"
    /\ Cardinality(DOMAIN raw) = 1
    /\ \E i \in DOMAIN raw :
        /\ RawOf(raw, lastOp.met.row) = {i}
        /\ raw[i].track_id # lastOp.met.row.track_id
        /\ raw[i].rel_path # lastOp.met.row.rel_path
        /\ raw[i].created_at # lastOp.met.row.created_at

\* ====================================================== SpecFeat
\* The features table: callers of upsert_features_num and
\* upsert_features_text, each call one transaction whose statements run one
\* by one on the transaction's image of the table; the commit publishes the
\* image, an error before it rolls the transaction back.
FeatSources == {"acousticbrainz"}

FeatNames == {"f1", "f2"}

\* f64 values a caller can pass, the not-a-number among them
NumValues == {"0.5", "0.8", "NaN"}

TextValues == {"happy"}

FeatKinds == {"num", "text"}

\* a batch: up to two (feature, value) items, names may repeat
Batches(values) ==
    {<<>>}
    \cup {<<[feature |-> f, value |-> v]>> : f \in FeatNames, v \in values}
    \cup {<<[feature |-> f, value |-> v], [feature |-> g, value |-> w]>> :
              f \in FeatNames, v \in values, g \in FeatNames, w \in values}

FeatRow(dtype, num, text, ts) ==
    [dtype |-> dtype, num_value |-> num, text_value |-> text, updated_at |-> ts]

\* .bind(value) of an f64: the engine stores a not-a-number as NULL
BindReal(v) == IF v = "NaN" THEN NULL ELSE v

\* INSERT INTO features .. VALUES (?1, ?2, ?3, 'num', ?4, NULL, ?5)
\* ON CONFLICT(track_id, source, feature) DO UPDATE SET dtype='num',
\* num_value=excluded.num_value, text_value=NULL, updated_at=..
upsert_features_num(F, t, src, item, ts) ==
    (<<t, src, item.feature>> :> FeatRow("num", BindReal(item.value), NULL, ts)) @@ F

\* .. VALUES (?1, ?2, ?3, 'text', NULL, ?4, ?5) ON CONFLICT .. DO UPDATE SET
\* dtype='text', num_value=NULL, text_value=excluded.text_value, ..
upsert_features_text(F, t, src, item, ts) ==
    (<<t, src, item.feature>> :> FeatRow("text", NULL, item.value, ts)) @@ F

InitFeat ==
    /\ InitStoreVars
    /\ InitPipeVars
    /\ InitGateVars
    /\ InitHttpVars
    /\ InitBackoffVars
    /\ InitRunVars
    /\ InitPaceVars
    /\ InitFileVars
    /\ InitJobVars
    /\ InitTokVars
    /\ InitExtVars

FeatFrame ==
    /\ UNCHANGED coreVars
    /\ UNCHANGED <<gateVars, httpVars, backoffVars, runVars, paceVars, jobVars>>
    /\ UNCHANGED <<tokVars, extVars>>
    /\ UNCHANGED <<raw, rawSeq>>

\* let mut tx = self.pool.begin().await?
FeatBegin(kind, t, src, items) ==
    /\ ftx = <<>>
    /\ ftx' = <<[kind |-> kind, track_id |-> t, source |-> src, items |-> items,
                 image |-> feats]>>
    /\ UNCHANGED feats
    /\ FeatFrame

\* for (feature, value) in items { sqlx::query(..).execute(&mut *tx).await? }
FeatStatement ==
    /\ ftx # <<>>
    /\ ftx[1].items # <<>>
    /\ LET x == ftx[1]
           item == Head(x.items)
           image == IF x.kind = "num"
                    THEN upsert_features_num(x.image, x.track_id, x.source, item, now)
                    ELSE upsert_features_text(x.image, x.track_id, x.source, item, now) IN
       ftx' = <<[x EXCEPT !.items = Tail(x.items), !.image = image]>>
    /\ UNCHANGED feats
    /\ FeatFrame

\* tx.commit().await?
FeatCommit ==
    /\ ftx # <<>>
    /\ ftx[1].items = <<>>
    /\ feats' = ftx[1].image
    /\ ftx' = <<>>
    /\ FeatFrame

\* a statement or the commit fails: the error is returned and the dropped
\* transaction is rolled back
FeatRollback ==
    /\ ftx # <<>>
    /\ ftx' = <<>>
    /\ UNCHANGED feats
    /\ FeatFrame

NextFeat ==
    \/ \E t \in TrackIds, src \in FeatSources, items \in Batches(NumValues) :
           FeatBegin("num", t, src, items)
    \/ \E t \in TrackIds, src \in FeatSources, items \in Batches(TextValues) :
           FeatBegin("text", t, src, items)
    \/ FeatStatement
    \/ FeatCommit
    \/ FeatRollback

SpecFeat == InitFeat /\ [][NextFeat]_vars

UpsertIsrcs == {"i1", "i2"}

\* a caller of upsert_track: position, inputs, the id looked up or minted
UpCl(pc, sid, isrc, tid, is_new) ==
    [pc |-> pc, sid |-> sid, isrc |-> isrc, tid |-> tid, is_new |-> is_new]

\* the first track as earlier calls may have left it: bare, with an ISRC,
\* linked, linked with its features
UpsertSeeds ==
    { <<>> } \cup
    { <<r, TrackRow("s2", NULL)>> :
        r \in { TrackRow("s1", NULL),
                TrackRow("s1", "i1"),
                [TrackRow("s1", "i1") EXCEPT !.mb_recording_id = "m1", !.linked_ok = TRUE],
                [TrackRow("s1", NULL) EXCEPT !.mb_recording_id = "m1", !.linked_ok = TRUE,
                                             !.features_ok = TRUE] } }

InitUpsert ==
    /\ tracks \in UpsertSeeds
    /\ jobs = <<>>
    /\ jobSeq = 0
    /\ trackSeq = Cardinality(DOMAIN tracks)
    /\ now = 0
    /\ writer = NoProc
    /\ jobs0 = <<>>
    /\ cpc = <<>>
    /\ ckind = <<>>
    /\ crow = <<>>
    /\ cstamp = <<>>
    /\ cfirst = <<>>
    /\ cres = <<>>
    /\ cl = [c \in Clients |-> UpCl("idle", NULL, NULL, 0, FALSE)]
    /\ calls = 0
    /\ lastOp = Op("init", NULL)
    /\ InitPipeVars
    /\ InitUtilVars

UpsertFrame ==
    /\ UNCHANGED <<jobs, jobSeq, now, writer>>
    /\ UNCHANGED claimVars
    /\ UNCHANGED lastOp
    /\ UNCHANGED pipeVars
    /\ UNCHANGED utilVars

\* spotify_id None: Db("missing spotify_id"); else get_track_id(id)
UpBegin(c, sid, isrc) ==
    /\ cl[c].pc \in {"idle", "returned", "failed"}
    /\ NewCall
    /\ cl' = [cl EXCEPT ![c] =
                 IF sid = NULL THEN UpCl("failed", sid, isrc, 0, FALSE)
                 ELSE IF get_track_id(tracks, sid) # 0
                 THEN UpCl("merge", sid, isrc, get_track_id(tracks, sid), FALSE)
                 ELSE UpCl("insert", sid, isrc, 0, FALSE)]
    /\ UNCHANGED <<tracks, trackSeq>>
    /\ UpsertFrame

\* UPDATE tracks SET title = COALESCE(?1, title), .., updated_at = ?8 WHERE
\* id = ?9: the descriptive columns only; then `if let Some(isrc)` or the
\* return of (existing, false)
UpMerge(c) ==
    /\ cl[c].pc = "merge"
    /\ cl' = [cl EXCEPT ![c].pc = IF cl[c].isrc # NULL THEN "coalesce" ELSE "returned"]
    /\ UNCHANGED <<tracks, trackSeq, calls>>
    /\ UpsertFrame

\* the merge UPDATE fails: .await? returns the error
UpMergeError(c) ==
    /\ cl[c].pc = "merge"
    /\ cl' = [cl EXCEPT ![c].pc = "failed"]
    /\ UNCHANGED <<tracks, trackSeq, calls>>
    /\ UpsertFrame

\* let _ = UPDATE tracks SET isrc = COALESCE(isrc, ?1) WHERE id = ?2;
\* return Ok((existing, false))
UpCoalesce(c) ==
    /\ cl[c].pc = "coalesce"
    /\ tracks' = coalesce_isrc(tracks, cl[c].tid, cl[c].isrc)
    /\ cl' = [cl EXCEPT ![c].pc = "returned"]
    /\ UNCHANGED <<trackSeq, calls>>
    /\ UpsertFrame

\* INSERT INTO tracks (..) with Uuid::new_v4(); Ok((id, true)), or the
\* error of a UNIQUE violation
UpInsert(c) ==
    /\ cl[c].pc = "insert"
    /\ IF InsertViolates(tracks, cl[c].sid, cl[c].isrc)
       THEN /\ UNCHANGED <<tracks, trackSeq>>
            /\ cl' = [cl EXCEPT ![c].pc = "failed"]
       ELSE /\ trackSeq' = trackSeq + 1
            /\ tracks' = tracks @@ ((trackSeq + 1) :> TrackRow(cl[c].sid, cl[c].isrc))
            /\ cl' = [cl EXCEPT ![c] = UpCl("returned", cl[c].sid, cl[c].isrc,
                                             trackSeq + 1, TRUE)]
    /\ UNCHANGED calls
    /\ UpsertFrame

NextUpsert ==
    \/ \E c \in Clients, sid \in SpotifyIds \cup {NULL}, isrc \in UpsertIsrcs \cup {NULL} :
           UpBegin(c, sid, isrc)
    \/ \E c \in Clients : UpMerge(c)
    \/ \E c \in Clients : UpMergeError(c)
    \/ \E c \in Clients : UpCoalesce(c)
    \/ \E c \in Clients : UpInsert(c)

SpecUpsert == InitUpsert /\ [][NextUpsert]_vars

\* C25: a statement of an upsert_track call that found a row for its catalog
\* id adds no row, leaves that row's catalog id, recording id, linked_ok and
\* features_ok as they are, changes its ISRC only from null and only to the
\* input ISRC, and the call returns that row's id with is_new = false.
C25_Step ==
    \A c \in Clients :
        (cl[c].pc \in {"merge", "coalesce"} /\ cl'[c] # cl[c]) =>
            LET t == cl[c].tid IN
            /\ DOMAIN tracks' = DOMAIN tracks
            /\ t \in DOMAIN tracks
            /\ tracks[t].spotify_id = cl[c].sid
            /\ tracks'[t].spotify_id = tracks[t].spotify_id
            /\ tracks'[t].mb_recording_id = tracks[t].mb_recording_id
            /\ tracks'[t].linked_ok = tracks[t].linked_ok
            /\ tracks'[t].features_ok = tracks[t].features_ok
            /\ tracks[t].isrc # NULL => tracks'[t].isrc = tracks[t].isrc
            /\ tracks'[t].isrc # tracks[t].isrc => tracks'[t].isrc = cl[c].isrc
            /\ cl'[c].pc = "returned" => (cl'[c].tid = t /\ ~cl'[c].is_new)

C25_ExistingRowKept == [][C25_Step]_vars

\* a call for the linked track s1, which holds ISRC i1, came with ISRC i2 and
\* returned the row's id, not new; the row still holds i1 and its flags
C25_Witness ==
    \E c \in Clients :
        /\ cl[c].pc = "returned"
        /\ ~cl[c].is_new
        /\ cl[c].isrc = "i2"
        /\ cl[c].tid \in DOMAIN tracks
        /\ tracks[cl[c].tid].isrc = "i1"
        /\ tracks[cl[c].tid].linked_ok
        /\ tracks[cl[c].tid].spotify_id = cl[c].sid

\* ====================================================== SpecJob
\* process_features_job call by call, on a store with two linked tracks and
\* their pending features jobs: the features loop claims a job and runs its
\* requests, raw-file index rows and feature rows in the order of the code;
\* every `?` returns the error to the loop, which logs it and goes on.
JobSeedTracks ==
    << [TrackRow("s1", "i1") EXCEPT !.mb_recording_id = "m1", !.linked_ok = TRUE],
       [TrackRow("s2", NULL) EXCEPT !.mb_recording_id = "m2", !.linked_ok = TRUE] >>

JobSeedJobs ==
    << JobRow(1, "link", "done", 1, 0), JobRow(2, "link", "done", 1, 0),
       JobRow(1, "features", "pending", 0, 0), JobRow(2, "features", "pending", 0, 0) >>

\* DiskZstdSink::write_json: the path is made from the payload's type and key
SinkPath(sub, key) == <<sub, key>>

\* the raw-file index: empty, or with the high-level row an earlier run of
\* the first job left before it failed
JobSeedRaw ==
    { <<>>,
      << RawRow(1, "acousticbrainz", "high-level", "m1", SinkPath("high-level", "m1"), 0) >> }

InitJob ==
    /\ tracks = JobSeedTracks
    /\ jobs = JobSeedJobs
    /\ jobSeq = Len(JobSeedJobs)
    /\ trackSeq = Len(JobSeedTracks)
    /\ now = 0
    /\ writer = NoProc
    /\ jobs0 = <<>>
    /\ cpc = <<>>
    /\ ckind = <<>>
    /\ crow = <<>>
    /\ cstamp = <<>>
    /\ cfirst = <<>>
    /\ cres = <<>>
    /\ cl = <<>>
    /\ calls = 0
    /\ lastOp = Op("init", NULL)
    /\ InitPipeVars
    /\ InitGateVars
    /\ InitHttpVars
    /\ InitBackoffVars
    /\ InitRunVars
    /\ InitPaceVars
    /\ raw \in JobSeedRaw
    /\ rawSeq = Len(raw)
    /\ feats = <<>>
    /\ ftx = <<>>
    /\ InitJobVars
    /\ InitTokVars
    /\ InitExtVars

JobFrame ==
    /\ UNCHANGED <<jobSeq, now, writer, trackSeq, cl, calls>>
    /\ UNCHANGED claimVars
    /\ UNCHANGED <<shutdown, fpc, fleft, lpc, ljob, lmbid>>
    /\ UNCHANGED <<gateVars, httpVars, backoffVars, runVars, paceVars>>
    /\ UNCHANGED <<tokVars, extVars>>
    /\ UNCHANGED ftx

FetchNextAnyway(ok, next) == next

\* http_with_retry(..).await?: the next call of the job, or the return of
\* the error to the loop
FetchNext(ok, next) == IF ok THEN next ELSE "head"

\* an `?` of the job returns its error: error!("features job failed")
JobError ==
    /\ gpc' = "head"
    /\ gjob' = NoRow
    /\ gmeta' = <<>>
    /\ lastOp' = Logged("features job failed", "error")
    /\ UNCHANGED <<tracks, jobs, raw, rawSeq, feats, gtags, gsteps, dels>>
    /\ JobFrame

\* claim_one_job(Features) gives a job: process_features_job(job)
JobClaim ==
    /\ gpc = "head"
    /\ \E j \in DOMAIN jobs :
        /\ ClaimFor("features", j)
        /\ gjob' = JobDesc(jobs, j)
    /\ gpc' = "meta"
    /\ gtags' = NULL
    /\ gmeta' = <<>>
    /\ gsteps' = <<>>
    /\ lastOp' = Op("other", NULL)
    /\ UNCHANGED <<tracks, raw, rawSeq, feats, dels>>
    /\ JobFrame

\* get_track_metadata(track_id): None => fail_job(job_id, "track not found");
\* meta.mb_recording_id None => NotFound("No mbid found")
JobMeta ==
    /\ gpc = "meta"
    /\ LET meta == get_track_metadata(tracks, gjob.track_id) IN
       IF meta = <<>>
       THEN /\ jobs' = fail_job(jobs, gjob.job_id, "track not found", now)
            /\ gpc' = "head"
            /\ gjob' = NoRow
            /\ gmeta' = <<>>
            /\ lastOp' = Logged("skip.no_track", "info")
       ELSE /\ jobs' = jobs
            /\ gpc' = IF meta[1].mb_recording_id = NULL THEN "head" ELSE "hl_fetch"
            /\ gjob' = IF meta[1].mb_recording_id = NULL THEN NoRow ELSE gjob
            /\ gmeta' = IF meta[1].mb_recording_id = NULL THEN <<>> ELSE meta
            /\ lastOp' = Op("other", NULL)
    /\ UNCHANGED <<tracks, raw, rawSeq, feats, gtags, gsteps, dels>>
    /\ JobFrame

\* a request of the job: its name and result are noted, then the next call
\* or the error return
JobFetch(at, req, next) ==
    /\ gpc = at
    /\ \E ok \in BOOLEAN :
        /\ gsteps' = Append(gsteps, [req |-> req, ok |-> ok])
        /\ gpc' = FetchNext(ok, next)
        /\ gjob' = IF FetchNext(ok, next) = "head" THEN NoRow ELSE gjob
        /\ gmeta' = IF FetchNext(ok, next) = "head" THEN <<>> ELSE gmeta
        /\ lastOp' = IF FetchNext(ok, next) = "head"
                     THEN Logged("features job failed", "error")
                     ELSE Op("other", NULL)
    /\ UNCHANGED <<tracks, jobs, raw, rawSeq, feats, gtags, dels>>
    /\ JobFrame

\* http_with_retry(acousticbrainz.features(mbid, "high-level")).await?
JobHighLevel == JobFetch("hl_fetch", "high-level", "hl_index")

\* http_with_retry(acousticbrainz.features(mbid, "low-level")).await?
JobLowLevel == JobFetch("ll_fetch", "low-level", "ll_index")

\* sink.write_json(type, mbid, payload)?; index_raw_file(track_id, source,
\* subtype, mbid, path)?
JobIndex(at, src, sub, next) ==
    /\ gpc = at
    /\ LET key == gmeta[1].mb_recording_id
           r == index_raw_file(raw, rawSeq,
                    RawRow(gjob.track_id, src, sub, key, SinkPath(sub, key), now)) IN
       /\ raw' = r.raw
       /\ rawSeq' = r.seq
    /\ gpc' = next
    /\ lastOp' = Op("other", NULL)
    /\ UNCHANGED <<tracks, jobs, feats, gjob, gtags, gmeta, gsteps, dels>>
    /\ JobFrame

JobHighLevelIndex == JobIndex("hl_index", "acousticbrainz", "high-level", "hl_num")

JobLowLevelIndex == JobIndex("ll_index", "acousticbrainz", "low-level", "ll_num")

JobTagsIndex == JobIndex("tags_index", "lastfm", "toptags", "mark")

\* upsert_features_num / upsert_features_text(track_id, "acousticbrainz",
\* items)?, the items being what the extraction gave
JobUpsert(at, kind, item, next) ==
    /\ gpc = at
    /\ feats' = IF kind = "num"
                THEN upsert_features_num(feats, gjob.track_id, "acousticbrainz", item, now)
                ELSE upsert_features_text(feats, gjob.track_id, "acousticbrainz", item, now)
    /\ gpc' = next
    /\ lastOp' = Op("other", NULL)
    /\ UNCHANGED <<tracks, jobs, raw, rawSeq, gjob, gtags, gmeta, gsteps, dels>>
    /\ JobFrame

JobHighLevelNum ==
    JobUpsert("hl_num", "num", [feature |-> "f1", value |-> "0.8"], "hl_text")

JobHighLevelText ==
    JobUpsert("hl_text", "text", [feature |-> "f2", value |-> "happy"], "ll_fetch")

JobLowLevelNum ==
    JobUpsert("ll_num", "num", [feature |-> "f1", value |-> "0.5"], "tags")

\* let mut tags = http_with_retry(lastfm.track_top_tags_by_mbid(mbid)).await
JobTags ==
    /\ gpc = "tags"
    /\ \E ok \in BOOLEAN :
        /\ gsteps' = Append(gsteps, [req |-> "toptags", ok |-> ok])
        /\ gtags' = IF ok THEN "by_mbid" ELSE "err"
        /\ gpc' = TagsNext(ok)
    /\ lastOp' = Op("other", NULL)
    /\ UNCHANGED <<tracks, jobs, raw, rawSeq, feats, gjob, gmeta, dels>>
    /\ JobFrame

\* if tags.is_err() { tags = http_with_retry(lastfm.track_top_tags(..)).await }
JobTagsFallback ==
    /\ gpc = "tags_fallback"
    /\ \E ok \in BOOLEAN :
        /\ gsteps' = Append(gsteps, [req |-> "toptags_query", ok |-> ok])
        /\ gtags' = IF ok THEN "by_query" ELSE "err"
        /\ gpc' = TagsResult(IF ok THEN "by_query" ELSE "err")
        /\ lastOp' = IF ok THEN Op("other", NULL) ELSE Logged("lastfm tags missing", "warn")
    /\ UNCHANGED <<tracks, jobs, raw, rawSeq, feats, gjob, gmeta, dels>>
    /\ JobFrame

\* mark_features_ok(track_id)?
JobMark ==
    /\ gpc = "mark"
    /\ tracks' = mark_features_ok(tracks, gjob.track_id)
    /\ gpc' = "complete"
    /\ lastOp' = Op("other", NULL)
    /\ UNCHANGED <<jobs, raw, rawSeq, feats, gjob, gtags, gmeta, gsteps, dels>>
    /\ JobFrame

\* complete_job(job_id)?; info!("features.done"); Ok(())
JobComplete ==
    /\ gpc = "complete"
    /\ jobs' = complete_job(jobs, gjob.job_id, now)
    /\ gpc' = "head"
    /\ gjob' = NoRow
    /\ gmeta' = <<>>
    /\ lastOp' = Logged("features.done", "info")
    /\ UNCHANGED <<tracks, raw, rawSeq, feats, gtags, gsteps, dels>>
    /\ JobFrame

\* a store call or a sink write of the job fails
JobStoreError ==
    /\ gpc \in {"meta", "hl_index", "hl_num", "hl_text", "ll_index", "ll_num",
                "tags_index", "mark", "complete"}
    /\ JobError

\* DELETE FROM tracks WHERE id = t, made outside the crawler: the jobs of the
\* track go with it, raw_files and features have no foreign key
JobDeleteTrack ==
    /\ dels < MaxDeletes
    /\ dels' = dels + 1
    /\ \E t \in DOMAIN tracks :
        /\ tracks' = [x \in DOMAIN tracks \ {t} |-> tracks[x]]
        /\ jobs' = [j \in {i \in DOMAIN jobs : jobs[i].track_id # t} |-> jobs[j]]
    /\ lastOp' = Op("other", NULL)
    /\ UNCHANGED <<raw, rawSeq, feats, gpc, gjob, gtags, gmeta, gsteps>>
    /\ JobFrame

NextJob ==
    \/ JobClaim
    \/ JobMeta
    \/ JobHighLevel
    \/ JobHighLevelIndex
    \/ JobHighLevelNum
    \/ JobHighLevelText
    \/ JobLowLevel
    \/ JobLowLevelIndex
    \/ JobLowLevelNum
    \/ JobTags
    \/ JobTagsFallback
    \/ JobTagsIndex
    \/ JobMark
    \/ JobComplete
    \/ JobStoreError
    \/ JobDeleteTrack

SpecJob == InitJob /\ [][NextJob]_vars

\* the raw-file index has the row of the payload sub of recording key
HasRaw(R, sub, key) ==
    \E i \in DOMAIN R :
        R[i].source = "acousticbrainz" /\ R[i].subtype = sub /\ R[i].key = key

\* the requests of a job so far are in the order high-level, low-level, tags
\* by recording id, tags by artist and title, each after the success of the
\* one before (the second tags request after the failure of the first)
InOrder(s) ==
    \A i \in 1..Len(s) :
        /\ s[i].req = "high-level" => i = 1
        /\ s[i].req = "low-level" => (i = 2 /\ s[1] = [req |-> "high-level", ok |-> TRUE])
        /\ s[i].req = "toptags" => (i = 3 /\ s[2] = [req |-> "low-level", ok |-> TRUE])
        /\ s[i].req = "toptags_query" => (i = 4 /\ s[3] = [req |-> "toptags", ok |-> FALSE])

\* C30: the requests of a features job are made in the order high-level,
\* low-level, tags, none after a failed high-level or low-level request;
\* features_ok is set only for the track of the job in hand after its tags
\* request; and every track with features_ok has the raw-file index rows of
\* the high-level and the low-level payload of its recording.
C30_Step ==
    /\ InOrder(gsteps')
    /\ \A t \in DOMAIN tracks \cap DOMAIN tracks' :
        (~tracks[t].features_ok /\ tracks'[t].features_ok) =>
            (t = gjob.track_id /\ Len(gsteps) >= 3)
    /\ \A t \in DOMAIN tracks' :
        tracks'[t].features_ok =>
            /\ HasRaw(raw', "high-level", tracks'[t].mb_recording_id)
            /\ HasRaw(raw', "low-level", tracks'[t].mb_recording_id)

C30_FeaturesInOrder == [][C30_Step]_vars

\* a features job is done after its three requests: its track has
\* features_ok and both index rows
C30_Witness ==
    /\ lastOp = Logged("features.done", "info")
    /\ Len(gsteps) >= 3
    /\ \E t \in DOMAIN tracks :
        /\ tracks[t].features_ok
        /\ HasRaw(raw, "high-level", tracks[t].mb_recording_id)
        /\ HasRaw(raw, "low-level", tracks[t].mb_recording_id)
        /\ \E j \in JobOf(jobs, t, "features") : jobs[j].status = "done"

\* C35: when the job in hand got a tag document (by recording id or by the
\* fallback) and ends done, the raw tag file is indexed under the recording
\* id and the feature store holds entries of the track that came from the tag
\* document (its lastfm.toptags.<name>.count and .p entries), that is entries
\* other than those of the acousticbrainz payloads.
C35_Step ==
    (gpc = "complete" /\ lastOp' = Logged("features.done", "info")
        /\ gtags \in {"by_mbid", "by_query"}) =>
        /\ \E i \in DOMAIN raw' :
            /\ raw'[i].source = "lastfm"
            /\ raw'[i].subtype = "toptags"
            /\ raw'[i].key = gmeta[1].mb_recording_id
        /\ \E k \in DOMAIN feats' : k[1] = gjob.track_id /\ k[2] # "acousticbrainz"

C35_TagFeaturesStored == [][C35_Step]_vars

\* ====================================================== SpecIngest
\* insert_tracks track by track (ensure_track, then the sink write and the
\* index row of the catalog payload), beside the index rows of a features job
\* in hand.  The column raw_files.track_id is TEXT: the specification keeps in
\* it the text of an id.
\* Uuid::new_v4().to_string() of the n-th internal id: 36 characters of hex
\* digits and dashes, never the 22 characters of a catalog id
IdTexts == <<"u1", "u2", "u3">>

IdText(t) == IdTexts[t]

\* ensure_track(track) as one call: upsert_track (a missing spotify_id is
\* refused; an existing row has its isrc coalesced; else the INSERT, which a
\* UNIQUE violation fails), the SELECT of linked_ok and the enqueue of the
\* link job.  id = 0 stands for Err.
ensure_track(T, J, tseq, jseq, sid, isrc, ts) ==
    LET existing == get_track_id(T, sid)
        fails == sid = NULL \/ (existing = 0 /\ InsertViolates(T, sid, isrc))
        id == IF existing # 0 THEN existing ELSE tseq + 1
        T1 == IF existing # 0 THEN coalesce_isrc(T, existing, isrc)
              ELSE T @@ (id :> TrackRow(sid, isrc))
        e == enqueue_job_if_missing(J, jseq, T1, id, "link", ts) IN
    IF fails THEN [tracks |-> T, jobs |-> J, tseq |-> tseq, jseq |-> jseq, id |-> 0]
    ELSE [tracks |-> T1,
          jobs |-> IF T1[id].linked_ok THEN J ELSE e.jobs,
          tseq |-> IF existing # 0 THEN tseq ELSE id,
          jseq |-> IF T1[id].linked_ok THEN jseq ELSE e.seq,
          id |-> id]

\* the store the feed and the features loop work on: new, or with a linked
\* track whose features job the loop has claimed
IngestSeeds ==
    { [tracks |-> <<>>, jobs |-> <<>>],
      [tracks |-> << [TrackRow("s1", "i1") EXCEPT !.mb_recording_id = "m1",
                                                   !.linked_ok = TRUE] >>,
       jobs |-> << JobRow(1, "link", "done", 1, 0),
                   JobRow(1, "features", "active", 1, 0) >>] }

InitIngest ==
    /\ \E s \in IngestSeeds :
        /\ tracks = s.tracks
        /\ jobs = s.jobs
        /\ jobSeq = Len(s.jobs)
        /\ trackSeq = Len(s.tracks)
    /\ now = 0
    /\ writer = NoProc
    /\ jobs0 = <<>>
    /\ cpc = <<>>
    /\ ckind = <<>>
    /\ crow = <<>>
    /\ cstamp = <<>>
    /\ cfirst = <<>>
    /\ cres = <<>>
    /\ cl = (FeedClient :> IdleCl)
    /\ calls = 0
    /\ lastOp = Op("init", NULL)
    /\ InitPipeVars
    /\ InitUtilVars

IngestFrame ==
    /\ UNCHANGED <<now, writer>>
    /\ UNCHANGED claimVars
    /\ UNCHANGED pipeVars
    /\ UNCHANGED <<gateVars, httpVars, backoffVars, runVars, paceVars, jobVars>>
    /\ UNCHANGED <<tokVars, extVars>>
    /\ UNCHANGED <<feats, ftx>>

\* for track in tracks: SpotifyTrack::new(&track); ensure_track(..): Ok is
\* counted, Err is logged, and the loop body goes on to the sink either way
IngestEnsure ==
    /\ cl[FeedClient].pc = "idle"
    /\ NewCall
    /\ \E sid \in SpotifyIds \cup {NULL}, isrc \in Isrcs \cup {NULL}, ok \in BOOLEAN :
        LET r == ensure_track(tracks, jobs, trackSeq, jobSeq, sid, isrc, now) IN
        /\ tracks' = IF ok THEN r.tracks ELSE tracks
        /\ jobs' = IF ok THEN r.jobs ELSE jobs
        /\ trackSeq' = IF ok THEN r.tseq ELSE trackSeq
        /\ jobSeq' = IF ok THEN r.jseq ELSE jobSeq
        /\ cl' = [cl EXCEPT ![FeedClient] =
                     [pc |-> "sink", sid |-> sid, isrc |-> isrc,
                      tid |-> IF ok THEN r.id ELSE 0]]
        /\ lastOp' = IF ok /\ r.id # 0
                     THEN Logged("track ensured in db", "debug")
                     ELSE Logged("failed to ensure track in db", "error")
    /\ UNCHANGED <<raw, rawSeq>>
    /\ IngestFrame

\* if let Some(spotify_id) = ..: sink.write_json(SpotifyTrack, spotify_id, ..)
\* and, on Ok(path), index_raw_file(spotify_id, "spotify", "track",
\* spotify_id, path); the errors of both are warned
IngestSink ==
    /\ cl[FeedClient].pc = "sink"
    /\ LET sid == cl[FeedClient].sid IN
       IF sid = NULL
       THEN /\ UNCHANGED <<raw, rawSeq>>
            /\ lastOp' = Op("other", NULL)
       ELSE \E res \in {"indexed", "write_json spotify", "index_raw_file spotify"} :
            LET r == index_raw_file(raw, rawSeq,
                         RawRow(sid, "spotify", "track", sid, SinkPath("track", sid), now)) IN
            /\ raw' = IF res = "indexed" THEN r.raw ELSE raw
            /\ rawSeq' = IF res = "indexed" THEN r.seq ELSE rawSeq
            /\ lastOp' = IF res = "indexed" THEN Op("other", NULL) ELSE Logged(res, "warn")
    /\ cl' = [cl EXCEPT ![FeedClient] = IdleCl]
    /\ UNCHANGED <<tracks, jobs, trackSeq, jobSeq, calls>>
    /\ IngestFrame

\* process_features_job: index_raw_file(&job.track_id, "acousticbrainz",
\* "high-level" / "low-level", mbid, path) for the job the loop has claimed
IngestFeaturesIndex ==
    /\ \E j \in DOMAIN jobs, sub \in RawSubtypes :
        /\ jobs[j].kind = "features"
        /\ jobs[j].status = "active"
        /\ LET meta == get_track_metadata(tracks, jobs[j].track_id) IN
           /\ meta # <<>>
           /\ meta[1].mb_recording_id # NULL
           /\ LET key == meta[1].mb_recording_id
                  r == index_raw_file(raw, rawSeq,
                           RawRow(IdText(jobs[j].track_id), "acousticbrainz", sub, key,
                                  SinkPath(sub, key), now)) IN
              /\ raw' = r.raw
              /\ rawSeq' = r.seq
              /\ raw' # raw
    /\ lastOp' = Op("other", NULL)
    /\ UNCHANGED <<tracks, jobs, trackSeq, jobSeq, calls, cl>>
    /\ IngestFrame

NextIngest ==
    \/ IngestEnsure
    \/ IngestSink
    \/ IngestFeaturesIndex

SpecIngest == InitIngest /\ [][NextIngest]_vars

\* C32: every row of the raw-file table has in track_id the internal id of a
\* track row that exists.
C32_RawRowsReferToTracks ==
    \A i \in DOMAIN raw : \E t \in DOMAIN tracks : IdText(t) = raw[i].track_id

\* ====================================================== SpecToken
\* The bearer token of the feed loop: the test before each search, and
\* refresh_token with the expires_in of the provider's response.  Time is in
\* seconds; u64 and the range of an Instant are scaled to TimeBits.
TimeBits == 14

MaxTokenSleeps == 4

SecsWord == 2 ^ TimeBits

\* the seconds an Instant can hold (i64), on the same scale
InstantMax == 2 ^ (TimeBits - 1) - 1

Builds == {"debug", "release"}

\* response["expires_in"]: absent (or not a non-negative integer), or a
\* number of seconds
ExpiresFields == {<<>>, <<0>>, <<59>>, <<60>>, <<61>>, <<3600>>}

\* the seconds the clock may advance between two steps of the loop
TokenSteps == {1, 60, 3540}

\* .as_u64().unwrap_or(3600)
UnwrapOr(opt, dflt) == IF opt = <<>> THEN dflt ELSE opt[1]

\* a - b on u64: with overflow checks (debug) an underflow panics, without
\* (release) it wraps.  <<>> stands for the panic.
SubSecs(a, b, build) ==
    IF a >= b THEN <<a - b>>
    ELSE IF build = "debug" THEN <<>>
    ELSE <<a + SecsWord - b>>

\* Instant + Duration: panics ("overflow when adding duration to instant")
\* when the sum is out of the Instant's range
InstantAdd(t, d) == IF t + d > InstantMax THEN <<>> ELSE <<t + d>>

\* refresh_token, after the response with an access_token arrived at t:
\* expire_time = Instant::now() + Duration::from_secs(expires_in - 60)
refresh_token(t, field, build) ==
    LET expires_in == UnwrapOr(field, 3600)
        secs == SubSecs(expires_in, 60, build) IN
    IF secs = <<>> THEN <<>> ELSE InstantAdd(t, secs[1])

\* if bearer_token.is_none() || Instant::now() >= token_expiry
NeedsRefresh(token, t, expiry) == token = <<>> \/ t >= expiry

InitToken ==
    /\ InitStoreVars
    /\ trackSeq = 0
    /\ cl = <<>>
    /\ calls = 0
    /\ lastOp = Op("init", NULL)
    /\ shutdown = FALSE
    /\ fpc = "token"
    /\ fleft = 0
    /\ lpc = "head"
    /\ ljob = NoRow
    /\ lmbid = NULL
    /\ gpc = "head"
    /\ gjob = NoRow
    /\ gtags = NULL
    /\ dels = 0
    /\ InitGateVars
    /\ InitHttpVars
    /\ InitBackoffVars
    /\ InitRunVars
    /\ InitPaceVars
    /\ InitFileVars
    /\ InitJobVars
    /\ InitTokVars
    /\ InitExtVars

TokenFrame ==
    /\ UNCHANGED <<storeVars, claimVars, clientVars>>
    /\ UNCHANGED <<shutdown, fleft, lpc, ljob, lmbid, gpc, gjob, gtags, dels>>
    /\ UNCHANGED <<gateLast, gateLock, wpc, wdue, rets>>
    /\ UNCHANGED <<httpVars, backoffVars, runVars, paceVars, fileVars, jobVars, extVars>>

\* the test of the token before the search
TokenCheck ==
    /\ fpc = "token"
    /\ fpc' = IF NeedsRefresh(bearer_token, clock, token_expiry) THEN "refresh" ELSE "search"
    /\ UNCHANGED <<clock, tokVars>>
    /\ TokenFrame

\* Self::refresh_token(..).await: Err (the request failed or the response has
\* no access_token) clears the token; Ok stores the token and its expiry; a
\* panic ends the feed task
TokenRefresh ==
    /\ fpc = "refresh"
    /\ \/ /\ bearer_token' = <<>>
          /\ fpc' = "sleep"
          /\ UNCHANGED <<token_expiry, real_expiry>>
       \/ \E field \in ExpiresFields, build \in Builds :
            LET exp == refresh_token(clock, field, build) IN
            IF exp = <<>>
            THEN /\ fpc' = "panicked"
                 /\ UNCHANGED tokVars
            ELSE /\ bearer_token' = <<"token">>
                 /\ token_expiry' = exp[1]
                 /\ real_expiry' = clock + UnwrapOr(field, 3600)
                 /\ fpc' = "search"
    /\ UNCHANGED clock
    /\ TokenFrame

\* if bearer_token.is_some() { the search and insert_tracks with the token }
TokenSearch ==
    /\ fpc = "search"
    /\ fpc' = "sleep"
    /\ UNCHANGED <<clock, tokVars>>
    /\ TokenFrame

\* sleep(queue_poll_ms) and the calls of the next iteration up to the test
TokenSleep ==
    /\ fpc = "sleep"
    /\ calls < MaxTokenSleeps
    /\ calls' = calls + 1
    /\ \E d \in TokenSteps : clock' = clock + d
    /\ fpc' = "token"
    /\ UNCHANGED tokVars
    /\ UNCHANGED <<storeVars, claimVars, trackSeq, cl, lastOp>>
    /\ UNCHANGED <<shutdown, fleft, lpc, ljob, lmbid, gpc, gjob, gtags, dels>>
    /\ UNCHANGED <<gateLast, gateLock, wpc, wdue, rets>>
    /\ UNCHANGED <<httpVars, backoffVars, runVars, paceVars, fileVars, jobVars, extVars>>

NextToken ==
    \/ TokenCheck
    \/ TokenRefresh
    \/ TokenSearch
    \/ TokenSleep

SpecToken == InitToken /\ [][NextToken]_vars

\* C33: refresh_token computes the expiry without underflow for every
\* expires_in (the feed task never panics in it), and the stored expiry of
\* the token in hand is now + (expires_in - 60), never later than the instant
\* the provider lets the token expire.
C33_ExpiryWithinLifetime ==
    /\ fpc # "panicked"
    /\ bearer_token # <<>> =>
        /\ token_expiry <= real_expiry
        /\ token_expiry + 60 = real_expiry

\* ====================================================== SpecExtract
\* The extract functions of the sink applied to a payload.  A string is the
\* sequence of its parts: a part is a run of ASCII letters and digits, or one
\* other character.  A JSON object is the sequence of its entries, an absent
\* or mistyped field the empty sequence.
Punctuation == {".", "-", "_", " "}

\* c.is_ascii_alphanumeric() || c == '-' || c == '_', part by part
IsKept(part) == part \notin Punctuation \/ part \in {"-", "_"}

\* sanitize_key: key.chars().map(|c| if kept { c } else { '_' }).collect()
sanitize_key(key) == [i \in DOMAIN key |-> IF IsKept(key[i]) THEN key[i] ELSE "_"]

RECURSIVE Flatten(_)
Flatten(ss) == IF ss = <<>> THEN <<>> ELSE Head(ss) \o Flatten(Tail(ss))

\* str::replace(pat, rep): every occurrence, left to right
RECURSIVE ReplaceAll(_, _, _)
ReplaceAll(str, pat, rep) ==
    IF Len(str) < Len(pat) THEN str
    ELSE IF SubSeq(str, 1, Len(pat)) = pat
         THEN rep \o ReplaceAll(SubSeq(str, Len(pat) + 1, Len(str)), pat, rep)
         ELSE <<Head(str)>> \o ReplaceAll(Tail(str), pat, rep)

Classifiers == {<<"mood">>, <<"mood", "_", "x">>, <<"mood", "-", "x">>}

\* node["value"].as_str()
ValueFields == {<<>>, <<"happy">>}

\* node["all"].as_object(), each entry a label and p.as_f64()
AllFields ==
    { <<>>,
      << << [label |-> <<"happy">>, p |-> <<"0.8">>],
            [label |-> <<"sad">>, p |-> <<"0.2">>] >> >>,
      << << [label |-> <<"happy">>, p |-> <<>>] >> >> }

HighLevelEntries == [k : Classifiers, node : [value : ValueFields, all : AllFields]]

HighLevelPayloads ==
    { [kind |-> "high-level", highlevel |-> <<>>, toptags |-> <<>>] }
    \cup { [kind |-> "high-level", highlevel |-> <<obj>>, toptags |-> <<>>] :
             obj \in {<<>>} \cup { <<e>> : e \in HighLevelEntries }
                     \cup { <<e, f>> : e \in {x \in HighLevelEntries : x.k = <<"mood">>},
                                       f \in {x \in HighLevelEntries : x.k # <<"mood">>} } }

TagNames == {<<>>, << <<"rock">> >>, << <<"hip", "-", "hop">> >>}

TagCounts == {0, 1, 3}

TagEntries == [name : TagNames, count : TagCounts]

TopTagsPayloads ==
    { [kind |-> "toptags", highlevel |-> <<>>, toptags |-> <<>>] }
    \cup { [kind |-> "toptags", highlevel |-> <<>>, toptags |-> <<arr>>] :
             arr \in {<<>>} \cup { <<e>> : e \in TagEntries }
                     \cup { <<e, f>> : e \in TagEntries, f \in TagEntries } }

\* if let Some(value) = node.get("value").as_str(): texts.push((key, value))
HighLevelText(e) ==
    IF e.node.value = <<>> THEN <<>>
    ELSE << [key |-> sanitize_key(<<"ab", ".", "highlevel", ".">> \o e.k \o <<".", "value">>),
             value |-> e.node.value[1]] >>

\* if let Some(all) = ..: for (label, p) in all: if let Some(prob) = p.as_f64():
\* nums.push((key, prob))
HighLevelNums(e) ==
    IF e.node.all = <<>> THEN <<>>
    ELSE LET all == e.node.all[1] IN
         Flatten([i \in DOMAIN all |->
            IF all[i].p = <<>> THEN <<>>
            ELSE << [key |-> sanitize_key(<<"ab", ".", "highlevel", ".">> \o e.k
                                           \o <<".", "all", ".">> \o all[i].label),
                     value |-> all[i].p[1]] >>])

extract_high_level(v) ==
    IF v.highlevel = <<>> THEN [nums |-> <<>>, texts |-> <<>>]
    ELSE LET object == v.highlevel[1] IN
         [nums |-> Flatten([i \in DOMAIN object |-> HighLevelNums(object[i])]),
          texts |-> Flatten([i \in DOMAIN object |-> HighLevelText(object[i])])]

RECURSIVE SumCounts(_)
SumCounts(temp) == IF temp = <<>> THEN 0 ELSE Head(temp).value.num + SumCounts(Tail(temp))

\* extract_toptags: a count entry per tag with a name, then, when the counts
\* sum to more than 0, an entry count / sum under key.replace(".count", ".p")
extract_toptags(v) ==
    IF v.toptags = <<>> THEN <<>>
    ELSE LET tags == v.toptags[1]
             temp == Flatten([i \in DOMAIN tags |->
                        IF tags[i].name = <<>> THEN <<>>
                        ELSE << [key |-> sanitize_key(<<"lastfm", ".", "toptags", ".">>
                                                       \o tags[i].name[1] \o <<".", "count">>),
                                 value |-> [num |-> tags[i].count, den |-> 1]] >>])
             sum == SumCounts(temp) IN
         temp \o (IF sum > 0
                  THEN [i \in DOMAIN temp |->
                          [key |-> ReplaceAll(temp[i].key, <<".", "count">>, <<".", "p">>),
                           value |-> [num |-> temp[i].value.num, den |-> sum]]]
                  ELSE <<>>)

InitExtract ==
    /\ InitStoreVars
    /\ trackSeq = 0
    /\ cl = <<>>
    /\ calls = 0
    /\ lastOp = Op("init", NULL)
    /\ InitPipeVars
    /\ InitGateVars
    /\ InitHttpVars
    /\ InitBackoffVars
    /\ InitRunVars
    /\ InitPaceVars
    /\ InitFileVars
    /\ InitJobVars
    /\ InitTokVars
    /\ payload \in HighLevelPayloads \cup TopTagsPayloads
    /\ extracted = <<>>

ExtractFrame ==
    /\ UNCHANGED coreVars
    /\ UNCHANGED <<gateVars, httpVars, backoffVars, runVars, paceVars, fileVars, jobVars, tokVars>>
    /\ UNCHANGED payload

ExtractHighLevel ==
    /\ extracted = <<>>
    /\ payload.kind = "high-level"
    /\ extracted' = <<extract_high_level(payload)>>
    /\ ExtractFrame

ExtractTopTags ==
    /\ extracted = <<>>
    /\ payload.kind = "toptags"
    /\ extracted' = <<extract_toptags(payload)>>
    /\ ExtractFrame

NextExtract ==
    \/ ExtractHighLevel
    \/ ExtractTopTags

SpecExtract == InitExtract /\ [][NextExtract]_vars

\* the labels of a payload that have a probability
RECURSIVE SumLabelled(_)
SumLabelled(object) ==
    IF object = <<>> THEN 0
    ELSE (IF Head(object).node.all = <<>> THEN 0
          ELSE Cardinality({i \in DOMAIN Head(object).node.all[1] :
                               Head(object).node.all[1][i].p # <<>>}))
         + SumLabelled(Tail(object))

\* the entries of a sequence of features that have the name key
Named(features, key) == {i \in DOMAIN features : features[i].key = key}

\* C34: for every classifier c of a high-level payload the result has
\* exactly one text feature ab.highlevel.<c>.value when the classifier has a
\* value, exactly one numeric feature ab.highlevel.<c>.all.<label> for each
\* label with a probability, and nothing else.
C34_HighLevelNames ==
    (extracted # <<>> /\ payload.kind = "high-level" /\ payload.highlevel # <<>>) =>
        LET object == payload.highlevel[1]
            out == extracted[1]
            Labelled(e) == IF e.node.all = <<>> THEN {}
                           ELSE {i \in DOMAIN e.node.all[1] : e.node.all[1][i].p # <<>>} IN
        /\ \A i \in DOMAIN object :
            LET e == object[i] IN
            /\ e.node.value # <<>> =>
                 Cardinality(Named(out.texts,
                     <<"ab", ".", "highlevel", ".">> \o e.k \o <<".", "value">>)) = 1
            /\ \A l \in Labelled(e) :
                 Cardinality(Named(out.nums,
                     <<"ab", ".", "highlevel", ".">> \o e.k \o <<".", "all", ".">>
                         \o e.node.all[1][l].label)) = 1
        /\ Len(out.texts) = Cardinality({i \in DOMAIN object : object[i].node.value # <<>>})
        /\ Len(out.nums) = SumLabelled(object)

\* ====================================================== SpecFeed
\* The feed and the link loop of the pipeline with a search that may return
\* any of the catalog ids: the feed is the only producer of link jobs, the
\* link loop their only consumer, and no track is deleted from outside.
\* the catalog ids a search may return
CatalogIds == {"s1", "s2", "s3"}

\* for track in tracks: ensure_track(SpotifyTrack::new(&track)), the tracks
\* being any the catalog holds (or without an id)
FeedItemWide ==
    /\ fpc = "items"
    /\ fleft > 0
    /\ cl[FeedClient].pc = "idle"
    /\ \E sid \in CatalogIds \cup {NULL} : EnsureTrackBegin(FeedClient, sid, NULL)
    /\ fleft' = fleft - 1
    /\ UNCHANGED <<jobSeq, now, writer, trackSeq, calls, dels>>
    /\ UNCHANGED claimVars
    /\ UNCHANGED utilVars
    /\ UNCHANGED <<tracks, jobs, shutdown, fpc, lpc, ljob, lmbid, gpc, gjob, gtags>>

NextFeed ==
    \/ FeedCount
    \/ FeedToken
    \/ FeedSearch
    \/ FeedBatch
    \/ FeedItemWide
    \/ FeedItemsDone
    \/ UpsertUpdate(FeedClient)
    \/ UpsertInsert(FeedClient)
    \/ EnsureSelectLinked(FeedClient)
    \/ EnsureEnqueue(FeedClient)
    \/ ClientError(FeedClient)
    \/ LinkWait
    \/ LinkClaim
    \/ LinkMeta
    \/ LinkLookup
    \/ LinkSetMbid
    \/ LinkComplete
    \/ LinkEnqueueFeatures
    \/ EnqFeaturesEnqueue(LinkClient)
    \/ ClientError(LinkClient)

SpecFeed == InitPipe /\ [][NextFeed]_vars

\* C37: the number of pending link jobs never exceeds (min_pending - 1) plus
\* the size of a batch (49 + 50 = 99 for min_pending = 50 and a page of 50).
C37_PendingBounded ==
    count_jobs(jobs, "link", "pending") <= (MinPending - 1) + MaxBatch

\* the bound is met: a batch admitted at min_pending - 1 pending jobs has
\* added a job for each of its tracks
C37_Witness ==
    /\ count_jobs(jobs, "link", "pending") = (MinPending - 1) + MaxBatch
    /\ fpc = "items"
    /\ fleft = 0

\* ---------------------------------------------------------------------
\* The three loops with a store that does not fail and a token that only run
\* cancels.  Each task takes its next step whenever it has one: the runtime
\* polls every ready task, and sleeps, gate waits and external calls return.
\* A call of ensure_track, process_link_job or process_features_job is one
\* step with the results the call can have when no statement fails.

\* for track in tracks: ensure_track(..), the call as a whole
LiveFeedItem ==
    /\ fpc = "items"
    /\ fleft > 0
    /\ \E sid \in SpotifyIds \cup {NULL} :
        LET r == ensure_track(tracks, jobs, trackSeq, jobSeq, sid, NULL, now) IN
        /\ tracks' = r.tracks
        /\ jobs' = r.jobs
        /\ trackSeq' = r.tseq
        /\ jobSeq' = r.jseq
    /\ fleft' = fleft - 1
    /\ lastOp' = Op("other", NULL)
    /\ UNCHANGED <<now, writer, calls, dels>>
    /\ UNCHANGED claimVars
    /\ UNCHANGED utilVars
    /\ UNCHANGED <<cl, shutdown, fpc, lpc, ljob, lmbid, gpc, gjob, gtags>>

\* claim_one_job(Link) with the statements succeeding: None only when the
\* SELECT finds no pending row
LinkClaimStoreOk ==
    /\ lpc = "claim"
    /\ IF SelectOldestPending(jobs, "link") = {}
       THEN /\ lpc' = "head"
            /\ UNCHANGED <<jobs, ljob>>
       ELSE \E j \in DOMAIN jobs :
            /\ ClaimFor("link", j)
            /\ ljob' = JobDesc(jobs, j)
            /\ lpc' = "meta"
    /\ PipeFrame
    /\ UNCHANGED <<tracks, cl, shutdown, fpc, fleft, lmbid, gpc, gjob, gtags>>

\* process_link_job as a whole: the lookup fails or set_mbid is refused (the
\* error is logged by the loop); the task panics on a response without a
\* recordings array; or the id is stored, the job completed and the features
\* job enqueued.
LiveLinkProcess ==
    /\ lpc = "meta"
    /\ \/ /\ LinkJobFailed
          /\ UNCHANGED <<tracks, jobSeq>>
       \/ /\ lpc' = "panicked"
          /\ ljob' = NoRow
          /\ lastOp' = Op("other", NULL)
          /\ UNCHANGED <<tracks, jobs, jobSeq>>
       \/ \E m \in AuthorityIds :
          /\ ~SetMbidViolates(tracks, ljob.track_id, m)
          /\ tracks' = set_mbid(tracks, ljob.track_id, m)
          /\ LET t == ljob.track_id
                 done == complete_job(jobs, ljob.job_id, now)
                 go == t \in DOMAIN tracks' /\ tracks'[t].linked_ok /\ ~tracks'[t].features_ok
                 e == enqueue_job_if_missing(done, jobSeq, tracks', t, "features", now) IN
             /\ jobs' = IF go THEN e.jobs ELSE done
             /\ jobSeq' = IF go THEN e.seq ELSE jobSeq
          /\ lpc' = "head"
          /\ ljob' = NoRow
          /\ lastOp' = Op("other", NULL)
    /\ UNCHANGED <<now, writer, trackSeq, calls, dels>>
    /\ UNCHANGED claimVars
    /\ UNCHANGED utilVars
    /\ UNCHANGED <<cl, shutdown, fpc, fleft, lmbid, gpc, gjob, gtags>>

\* claim_one_job(Features) with the statements succeeding
FeaturesClaimStoreOk ==
    /\ gpc = "claim"
    /\ IF SelectOldestPending(jobs, "features") = {}
       THEN /\ gpc' = "head"
            /\ UNCHANGED <<jobs, gjob, gtags>>
       ELSE \E j \in DOMAIN jobs :
            /\ ClaimFor("features", j)
            /\ gjob' = JobDesc(jobs, j)
            /\ gtags' = NULL
            /\ gpc' = "meta"
    /\ PipeFrame
    /\ UNCHANGED <<tracks, cl, shutdown, fpc, fleft, lpc, ljob, lmbid>>

\* process_features_job as a whole: a request fails or the track has no
\* recording id (the error is logged by the loop); or the features are
\* stored, the track marked and the job completed.
LiveFeaturesProcess ==
    /\ gpc = "meta"
    /\ \/ /\ FeaturesJobFailed
          /\ UNCHANGED tracks
       \/ /\ tracks' = mark_features_ok(tracks, gjob.track_id)
          /\ jobs' = complete_job(jobs, gjob.job_id, now)
          /\ gpc' = "head"
          /\ gjob' = NoRow
          /\ lastOp' = Logged("features.done", "info")
    /\ PipeKeep
    /\ UNCHANGED <<cl, shutdown, fpc, fleft, lpc, ljob, lmbid, gtags>>

FeedTask ==
    \/ FeedCount
    \/ FeedToken
    \/ FeedSearch
    \/ FeedBatch
    \/ LiveFeedItem
    \/ FeedItemsDone

LinkTask ==
    \/ LinkWait
    \/ LinkClaimStoreOk
    \/ LiveLinkProcess

FeaturesTask ==
    \/ FeaturesWait
    \/ FeaturesClaimStoreOk
    \/ LiveFeaturesProcess

NextLive ==
    \/ FeedCount
    \/ FeedToken
    \/ FeedSearch
    \/ FeedBatch
    \/ LiveFeedItem
    \/ FeedItemsDone
    \/ LinkWait
    \/ LinkClaimStoreOk
    \/ LiveLinkProcess
    \/ FeaturesWait
    \/ FeaturesClaimStoreOk
    \/ LiveFeaturesProcess
    \/ RunSelect

SpecLive ==
    /\ InitPipe
    /\ [][NextLive]_vars
    /\ WF_vars(FeedTask)
    /\ WF_vars(LinkTask)
    /\ WF_vars(FeaturesTask)
    /\ WF_vars(RunSelect)

\* the job ids the store can hand out: a link and a features job per track
LiveJobIds == 1..(2 * Cardinality(SpotifyIds))

IsPending(j) == j \in DOMAIN jobs /\ jobs[j].status = "pending"

\* the row was turned active by a claim (and may have ended since)
WasClaimed(j) ==
    /\ j \in DOMAIN jobs
    /\ jobs[j].status # "pending"
    /\ jobs[j].attempt = 1

NextLink ==
    \/ FeedCount
    \/ FeedToken
    \/ FeedSearch
    \/ FeedBatch
    \/ LiveFeedItem
    \/ FeedItemsDone
    \/ LinkWait
    \/ LinkClaim
    \/ LinkMeta
    \/ LinkLookup
    \/ LinkSetMbid
    \/ LinkComplete
    \/ LinkEnqueueFeatures
    \/ EnqFeaturesEnqueue(LinkClient)
    \/ ClientError(LinkClient)

SpecLink == InitPipe /\ [][NextLink]_vars

\* the recording id the lookup returned is the authority id of another track
ResolvedIdTaken ==
    /\ lpc = "set_mbid"
    /\ \E o \in DOMAIN tracks :
        /\ o # ljob.track_id
        /\ tracks[o].mb_recording_id = lmbid

\* C40: when the recording id resolved for a link job is already the
\* authority id of another track, the set_mbid step fails and changes
\* nothing: the job's track keeps linked_ok = false and a null authority id,
\* its link job stays active, no features job exists for it, and the other
\* tracks' rows are unchanged.
C40_Step ==
    (ResolvedIdTaken /\ lpc' # lpc) =>
        /\ tracks' = tracks
        /\ ~tracks'[ljob.track_id].linked_ok
        /\ tracks'[ljob.track_id].mb_recording_id = NULL
        /\ jobs' = jobs
        /\ jobs'[ljob.job_id].status = "active"
        /\ JobOf(jobs', ljob.track_id, "features") = {}
        /\ lpc' = "head"
        /\ lastOp' = Logged("link job failed", "error")

C40_CollisionChangesNothing == [][C40_Step]_vars

\* a link job was left active by the loop, its track unlinked and without a
\* features job, while another track holds a recording id
C40_Witness ==
    /\ lpc = "head"
    /\ lastOp = Logged("link job failed", "error")
    /\ \E j \in DOMAIN jobs, o \in DOMAIN tracks :
        /\ jobs[j].kind = "link"
        /\ jobs[j].status = "active"
        /\ o # jobs[j].track_id
        /\ ~tracks[jobs[j].track_id].linked_ok
        /\ tracks[jobs[j].track_id].mb_recording_id = NULL
        /\ JobOf(jobs, jobs[j].track_id, "features") = {}
        /\ tracks[o].linked_ok
        /\ tracks[o].mb_recording_id \in AuthorityIds

====
